---- MODULE Spec2Model ----
(***************************************************************************)
(* The dedupe-index coordinator of kvdo (src/vdo/kernel/dedupeIndex.c):    *)
(* the request lifecycle (enqueue_index_operation, start_index_operation,  *)
(* finish_index_operation, timeout_index_operations), the session state    *)
(* machine (set_target_state, change_dedupe_state, open_session,           *)
(* close_session), suspend_index and the periodic timeout reporter.        *)
(*                                                                         *)
(* Threads: one data-path thread per request context, the single worker of *)
(* the uds_queue, the engine's callback thread, the pending timer          *)
(* (softirq), the cpu queue running the reporter, a control thread issuing *)
(* start/stop/message commands and a thread calling suspend.               *)
(***************************************************************************)
EXTENDS Integers, Sequences, FiniteSets, TLC

----------------------------------------------------------------------------
(* Bounds of the model *)

\* jiffies is an unsigned counter of JiffiesBits bits
JiffiesBits == 4

\* at most this many calls of post/query/update in a behaviour
MaxSubmissions == 2

\* at most this many start/stop/message/suspend calls in a behaviour of the
\* whole system
MaxCommands == 2

\* unsigned int is modelled UIntBits wide
UIntBits == 16

----------------------------------------------------------------------------
(* Program constants *)

\* the floor of albireo_timeout_jiffies set by set_albireo_timeout_interval
albireo_timeout_jiffies == 2

\* the floor of min_albireo_timer_jiffies set by set_min_albireo_timer_interval
min_albireo_timer_jiffies == 2

UDS_ADVICE_VERSION == 2

UDS_ADVICE_SIZE == 10

UR_IDLE == "UR_IDLE"

UR_BUSY == "UR_BUSY"

UR_TIMED_OUT == "UR_TIMED_OUT"

IS_CLOSED == "IS_CLOSED"

IS_CHANGING == "IS_CHANGING"

IS_OPENED == "IS_OPENED"

UDS_SUCCESS == "UDS_SUCCESS"

ETIMEDOUT == "ETIMEDOUT"

Contexts == {"c1", "c2"}

LIST_POISON1 == "LIST_POISON1"

LIST_POISON2 == "LIST_POISON2"

pending_head == "pending_head"

expiredHead == "expiredHead"

Nodes == Contexts \cup {pending_head, expiredHead}

JiffiesModulus == 2 ^ JiffiesBits

----------------------------------------------------------------------------
(* The kernel's intrusive list (struct list_head), as dedupeIndex.c uses   *)
(* it: L maps each node to its next and prev pointers.                     *)

\* a pointer no list operation can follow: poison, or the NULL of a list_head
\* that was never linked
IsPoison(p) == p \in {LIST_POISON1, LIST_POISON2, "NULL"}

INIT_LIST_HEAD(L, head) ==
    [L EXCEPT ![head] = [next |-> head, prev |-> head]]

list_empty(L, head) == L[head].next = head

\* __list_add(new, head->prev, head): the four stores in the kernel's order
list_add_tail(L, new, head) ==
    LET prev == L[head].prev
        L1 == [L EXCEPT ![head].prev = new]
        L2 == [L1 EXCEPT ![new].next = head]
        L3 == [L2 EXCEPT ![new].prev = prev]
    IN  [L3 EXCEPT ![prev].next = new]

\* list_del dereferences entry->next and entry->prev: a poisoned pointer faults
list_del_faults(L, entry) ==
    IsPoison(L[entry].next) \/ IsPoison(L[entry].prev)

\* what CONFIG_DEBUG_LIST checks before unlinking
list_del_entry_valid(L, entry) ==
    /\ ~list_del_faults(L, entry)
    /\ L[L[entry].prev].next = entry
    /\ L[L[entry].next].prev = entry

\* __list_del(prev, next) followed by the poisoning of the entry
list_del(L, entry) ==
    LET next == L[entry].next
        prev == L[entry].prev
        L1 == [L EXCEPT ![next].prev = prev]
        L2 == [L1 EXCEPT ![prev].next = next]
    IN  [L2 EXCEPT ![entry] = [next |-> LIST_POISON1, prev |-> LIST_POISON2]]

----------------------------------------------------------------------------
(* The advice codec *)

RECURSIVE encodeUInt64LE_bytes(_, _)
\* the n low bytes of value, least significant first
encodeUInt64LE_bytes(value, n) ==
    IF n = 0 THEN <<>>
    ELSE <<value % 256>> \o encodeUInt64LE_bytes(value \div 256, n - 1)

RECURSIVE decodeUInt64LE_bytes(_)
decodeUInt64LE_bytes(bytes) ==
    IF bytes = <<>> THEN 0
    ELSE Head(bytes) + 256 * decodeUInt64LE_bytes(Tail(bytes))

\* encode_uds_advice: the bytes written into request->newMetadata
encode_uds_advice(advice) ==
    <<UDS_ADVICE_VERSION, advice.state % 256>> \o encodeUInt64LE_bytes(advice.pbn, 8)

NoAdvice == [valid |-> FALSE, state |-> 0, pbn |-> 0]

\* decode_uds_advice taking the payload whatever its version byte
decode_uds_advice_any_version(request) ==
    IF (request.status # UDS_SUCCESS) \/ ~request.found
    THEN NoAdvice
    ELSE [valid |-> TRUE,
          state |-> request.oldMetadata[2],
          pbn   |-> decodeUInt64LE_bytes(SubSeq(request.oldMetadata, 3, UDS_ADVICE_SIZE))]

\* decode_uds_advice: the advice, or NoAdvice where the code returns false
decode_uds_advice(request) ==
    IF (request.status # UDS_SUCCESS) \/ ~request.found
    THEN NoAdvice
    ELSE IF request.oldMetadata[1] # UDS_ADVICE_VERSION
         THEN NoAdvice
         ELSE [valid |-> TRUE,
               state |-> request.oldMetadata[2],
               pbn   |-> decodeUInt64LE_bytes(SubSeq(request.oldMetadata, 3, UDS_ADVICE_SIZE))]

ZeroMetadata == [i \in 1..UDS_ADVICE_SIZE |-> 0]

----------------------------------------------------------------------------
(* Inputs the environment draws from *)

\* what the data path passes to post/query/update
RequestInputs ==
    { [op |-> "UDS_POST",   chunk |-> "H1", advice |-> [state |-> 7, pbn |-> 42]],
      [op |-> "UDS_QUERY",  chunk |-> "H2", advice |-> [state |-> 0, pbn |-> 0]],
      [op |-> "UDS_UPDATE", chunk |-> "H1", advice |-> [state |-> 3, pbn |-> 300]] }

\* an engine status that is neither success nor one the code singles out
UDS_ERROR == "UDS_ERROR"

\* what the engine reports when a chunk operation completes
EngineReplies ==
    { [status |-> UDS_SUCCESS, found |-> TRUE,
       oldMetadata |-> encode_uds_advice([state |-> 7, pbn |-> 42])],
      [status |-> UDS_SUCCESS, found |-> FALSE, oldMetadata |-> ZeroMetadata],
      [status |-> UDS_ERROR, found |-> FALSE, oldMetadata |-> ZeroMetadata] }

----------------------------------------------------------------------------
(* Jiffies arithmetic: unsigned, JiffiesBits wide *)

JAdd(a, b) == (a + b) % JiffiesModulus

JSub(a, b) == (a - b + JiffiesModulus) % JiffiesModulus

maxULong(a, b) == IF a > b THEN a ELSE b

\* the kernel's time_after_eq(a, b): a is at or after b in wrap-aware order
time_after_eq(a, b) == JSub(a, b) < JiffiesModulus \div 2

\* the present tick, in the middle of the counter's range
JiffiesNow == JiffiesModulus \div 2

\* a submission_time this old is expired at every later run of the timer
OldestSubmission == JiffiesNow - albireo_timeout_jiffies - 1

----------------------------------------------------------------------------
VARIABLES
    \* struct dedupe_context, one per data_kvio
    request_state, is_pending, submission_time, status, advice,
    \* the UdsRequest embedded in each context
    uds_request,
    \* the list linkage of pending_head, the timer's expiredHead and each
    \* context's pending_list
    link,
    \* struct dedupe_index
    active, maximum, index_state, index_target, changing, create_flag,
    dedupe_flag, deduping, error_flag, index_session, started_timer,
    uds_queue, state_lock, pending_lock,
    \* struct periodic_event_reporter and its work item on the cpu queue
    reporter,
    \* kernel_layer.dedupeContextBusy
    dedupeContextBusy,
    \* the kernel: tick counter and pending_timer
    jiffies, pending_timer,
    \* the caller of get_index_statistics: where it is, its locals and the
    \* IndexStatistics it fills
    statistics,
    \* threads: where each one is in its function, and its locals
    dp, worker, finisher, timer, control, suspender,
    \* the index engine: requests it holds, the session it has open
    engine,
    \* the data path's view: per context, whether a submission awaits its
    \* callback and how many callbacks the submission got; the last
    \* request_state transition and the function that made it
    awaiting, callbacks, rs_edge,
    \* counters of the bounded environment
    submissions, commands

ctx_vars == <<request_state, is_pending, submission_time, status, advice, uds_request>>

index_vars == <<active, maximum, index_state, index_target, changing, create_flag,
                dedupe_flag, deduping, error_flag, index_session, started_timer,
                uds_queue, state_lock, pending_lock>>

thread_vars == <<dp, worker, finisher, timer, control, suspender>>

vars == <<ctx_vars, link, index_vars, reporter, dedupeContextBusy, jiffies,
          statistics,
          pending_timer, thread_vars, engine, awaiting, callbacks, rs_edge,
          submissions, commands>>

ZeroRequest ==
    [chunkName |-> "none", session |-> 0, type |-> "none",
     newMetadata |-> ZeroMetadata, status |-> UDS_SUCCESS, found |-> FALSE,
     oldMetadata |-> ZeroMetadata]

\* the engine calls of a run of change_dedupe_state that are remembered
MaxCallsKept == 4

\* the worker's record of its engine calls, the latest MaxCallsKept of them
engine_called(calls, call) ==
    LET all == Append(calls, call)
    IN  IF Len(all) > MaxCallsKept THEN Tail(all) ELSE all

\* calls: the latest engine calls change_dedupe_state has made since it
\* started, each with what it returned; failed_at: how many commands had been
\* issued when open_session last set the error state in this run
IdleWorker ==
    [pc |-> "idle", ctx |-> "none", create_flag |-> FALSE,
     next_create_flag |-> FALSE, result |-> UDS_SUCCESS, calls |-> <<>>,
     failed_at |-> -1]

\* struct periodic_event_reporter after init_periodic_event_reporter.
\* enqueued: how often the work item is on the cpu queue; pc, new_value: where
\* a run of report_events is and the value it read; incrementing: the timer
\* is between the two atomic operations of report_dedupe_timeout; logged: the
\* sum of the numbers in the log lines so far; stopped, flushed:
\* stop_periodic_event_reporter has been called, has returned
IdleReporter ==
    [value |-> 0, last_reported_value |-> 0, work_item_queued |-> 0,
     enqueued |-> 0, pc |-> "idle", new_value |-> 0, incrementing |-> FALSE,
     logged |-> 0, stopped |-> FALSE, flushed |-> FALSE]

\* no get_index_statistics call is running
IdleStatistics ==
    [pc |-> "idle", index_state |-> IS_CLOSED, maxDedupeQueries |-> 0,
     currDedupeQueries |-> 0, session |-> 0]

\* the state make_dedupe_index returns, with every data_kvio unused
Init ==
    /\ request_state = [c \in Contexts |-> UR_IDLE]
    /\ is_pending = [c \in Contexts |-> FALSE]
    /\ submission_time = [c \in Contexts |-> OldestSubmission]
    /\ status = [c \in Contexts |-> UDS_SUCCESS]
    /\ advice = [c \in Contexts |-> NoAdvice]
    /\ uds_request = [c \in Contexts |-> ZeroRequest]
    /\ link = [n \in Nodes |->
                 IF n \in Contexts THEN [next |-> "NULL", prev |-> "NULL"]
                 ELSE [next |-> n, prev |-> n]]
    /\ active = 0
    /\ maximum = 0
    /\ index_state = IS_CLOSED
    /\ index_target = IS_CLOSED
    /\ changing = FALSE
    /\ create_flag = FALSE
    /\ dedupe_flag = FALSE
    /\ deduping = FALSE
    /\ error_flag = FALSE
    /\ index_session = 0
    /\ started_timer = FALSE
    /\ uds_queue = <<>>
    /\ state_lock = "free"
    /\ pending_lock = "free"
    /\ reporter = IdleReporter
    /\ dedupeContextBusy = 0
    /\ jiffies = JiffiesNow
    /\ statistics = IdleStatistics
    /\ pending_timer = [armed |-> FALSE, expires |-> JiffiesNow]
    /\ dp = [c \in Contexts |-> "idle"]
    /\ worker = IdleWorker
    /\ finisher = [t \in {"worker", "callback"} |-> [pc |-> "idle", ctx |-> "none"]]
    /\ timer = [pc |-> "idle", earliest_submission_allowed |-> OldestSubmission,
                ctx |-> "none"]
    /\ control = "idle"
    /\ suspender = [pc |-> "idle", save_flag |-> FALSE]
    /\ engine = [requests |-> {}, session |-> 0]
    /\ awaiting = [c \in Contexts |-> FALSE]
    /\ callbacks = [c \in Contexts |-> 0]
    /\ rs_edge = [c \in Contexts |-> <<UR_IDLE, UR_IDLE, "make_dedupe_index">>]
    /\ submissions = 0
    /\ commands = 0

----------------------------------------------------------------------------
(* Helpers shared by the request paths *)

\* a store to request_state by function `by`
rs_write(c, to, by) ==
    /\ request_state' = [request_state EXCEPT ![c] = to]
    /\ rs_edge' = [rs_edge EXCEPT ![c] = <<request_state[c], to, by>>]

rs_unchanged == UNCHANGED <<request_state, rs_edge>>

\* invoke_dedupe_callback: the data path gets its data_kvio back
invoke_dedupe_callback(c) ==
    /\ awaiting' = [awaiting EXCEPT ![c] = FALSE]
    /\ callbacks' = [callbacks EXCEPT ![c] = @ + 1]

\* the data path hands a context to post/query/update: one call at a time
\* per context, after the callback of the context's previous submission
data_path_submits(c) ==
    /\ dp[c] = "idle"
    /\ ~awaiting[c]
    /\ submissions < MaxSubmissions
    /\ submissions' = submissions + 1
    /\ awaiting' = [awaiting EXCEPT ![c] = TRUE]
    /\ callbacks' = [callbacks EXCEPT ![c] = 0]
    /\ advice' = [advice EXCEPT ![c] = NoAdvice]

get_albireo_timeout(start_jiffies) ==
    maxULong(JAdd(start_jiffies, albireo_timeout_jiffies),
             JAdd(jiffies, min_albireo_timer_jiffies))

\* start_expiration_timer: the values of started_timer and pending_timer
\* after the call
start_expiration_timer(c) ==
    IF ~started_timer
    THEN /\ started_timer' = TRUE
         /\ pending_timer' = [armed |-> TRUE,
                              expires |-> get_albireo_timeout(submission_time[c])]
    ELSE UNCHANGED <<started_timer, pending_timer>>

\* the outcomes of list_del(entry): a valid entry is unlinked; an entry with
\* a poisoned or NULL pointer faults, or is left alone by a CONFIG_DEBUG_LIST
\* build; an entry whose neighbours do not point back is unlinked, or left
\* alone by a CONFIG_DEBUG_LIST build
list_del_outcomes(L, entry) ==
    IF list_del_entry_valid(L, entry)
    THEN {[L |-> list_del(L, entry), fault |-> FALSE]}
    ELSE {[L |-> L, fault |-> FALSE]} \cup
         (IF list_del_faults(L, entry)
          THEN {[L |-> L, fault |-> TRUE]}
          ELSE {[L |-> list_del(L, entry), fault |-> FALSE]})

ToUnsigned(x) == x % (2 ^ UIntBits)

----------------------------------------------------------------------------
(* enqueue_index_operation, called by post/query/update_dedupe_advice *)

\* enqueue_index_operation filling the UdsRequest before it looks at the
\* outcome of the compare-and-swap
enqueue_index_operation_fills_first(c, in) ==
    /\ data_path_submits(c)
    /\ status' = [status EXCEPT ![c] = UDS_SUCCESS]
    /\ submission_time' = [submission_time EXCEPT ![c] = jiffies]
    /\ uds_request' = [uds_request EXCEPT ![c] =
         [@ EXCEPT !.chunkName = in.chunk,
                   !.session = index_session,
                   !.type = in.op,
                   !.newMetadata =
                       IF in.op \in {"UDS_POST", "UDS_UPDATE"}
                       THEN encode_uds_advice(in.advice) ELSE @]]
    /\ IF request_state[c] = UR_IDLE
       THEN /\ rs_write(c, UR_BUSY, "enqueue_index_operation")
            /\ dp' = [dp EXCEPT ![c] = "cas_ok"]
            /\ UNCHANGED dedupeContextBusy
       ELSE /\ rs_unchanged
            /\ dedupeContextBusy' = dedupeContextBusy + 1
            /\ dp' = [dp EXCEPT ![c] = "stale"]
    /\ UNCHANGED <<is_pending, link, index_vars, reporter, jiffies, statistics, pending_timer,
                   worker, finisher, timer, control, suspender, engine, commands>>

\* lines 514-526 and 546-550: the stores to the context, the compare-and-swap
\* and, when it succeeds, the filling of the UdsRequest
enqueue_index_operation(c, in) ==
    /\ data_path_submits(c)
    /\ status' = [status EXCEPT ![c] = UDS_SUCCESS]
    /\ submission_time' = [submission_time EXCEPT ![c] = jiffies]
    /\ IF request_state[c] = UR_IDLE
       THEN /\ rs_write(c, UR_BUSY, "enqueue_index_operation")
            /\ uds_request' = [uds_request EXCEPT ![c] =
                 [@ EXCEPT !.chunkName = in.chunk,
                           !.session = index_session,
                           !.type = in.op,
                           !.newMetadata =
                               IF in.op \in {"UDS_POST", "UDS_UPDATE"}
                               THEN encode_uds_advice(in.advice) ELSE @]]
            /\ dp' = [dp EXCEPT ![c] = "cas_ok"]
            /\ UNCHANGED dedupeContextBusy
       ELSE /\ rs_unchanged
            /\ dedupeContextBusy' = dedupeContextBusy + 1
            /\ dp' = [dp EXCEPT ![c] = "stale"]
            /\ UNCHANGED uds_request
    /\ UNCHANGED <<is_pending, link, index_vars, reporter, jiffies, statistics, pending_timer,
                   worker, finisher, timer, control, suspender, engine, commands>>

\* lines 533-536 and 542-545: under the state_lock, the work item is
\* enqueued if deduping, else the context goes back to idle
enqueue_locked(c) ==
    /\ dp[c] = "cas_ok"
    /\ state_lock = "free"
    /\ IF deduping
       THEN /\ uds_queue' = Append(uds_queue, [type |-> "request", ctx |-> c])
            /\ state_lock' = c
            /\ dp' = [dp EXCEPT ![c] = "enqueued"]
            /\ rs_unchanged
       ELSE /\ rs_write(c, UR_IDLE, "enqueue_index_operation")
            /\ state_lock' = "free"
            /\ dp' = [dp EXCEPT ![c] = "not_deduping"]
            /\ UNCHANGED uds_queue
    /\ UNCHANGED <<is_pending, submission_time, status, advice, uds_request, link,
                   active, maximum, index_state, index_target, changing,
                   create_flag, dedupe_flag, deduping, error_flag, index_session,
                   started_timer, pending_lock, reporter, dedupeContextBusy,
                   jiffies, statistics, pending_timer, worker, finisher, timer, control,
                   suspender, engine, awaiting, callbacks, submissions, commands>>

\* lines 537-541 and 545: active is counted, maximum follows, the lock goes
enqueue_counted(c) ==
    /\ dp[c] = "enqueued"
    /\ active' = active + 1
    /\ maximum' = IF ToUnsigned(active') > maximum THEN ToUnsigned(active') ELSE maximum
    /\ state_lock' = "free"
    /\ dp' = [dp EXCEPT ![c] = "idle"]
    /\ UNCHANGED <<ctx_vars, link, index_state, index_target, changing,
                   create_flag, dedupe_flag, deduping, error_flag, index_session,
                   started_timer, uds_queue, pending_lock, reporter,
                   dedupeContextBusy, jiffies, statistics, pending_timer, worker, finisher,
                   timer, control, suspender, engine, awaiting, callbacks,
                   rs_edge, submissions, commands>>

\* lines 551-553: kvio != NULL on the path where the index is not deduping and
\* on the path of the stale context; the caller invokes the callback
enqueue_callback(c) ==
    /\ dp[c] \in {"not_deduping", "stale"}
    /\ invoke_dedupe_callback(c)
    /\ dp' = [dp EXCEPT ![c] = "idle"]
    /\ UNCHANGED <<ctx_vars, link, index_vars, reporter, dedupeContextBusy,
                   jiffies, statistics, pending_timer, worker, finisher, timer, control,
                   suspender, engine, rs_edge, submissions, commands>>

----------------------------------------------------------------------------
(* finish_index_operation, run by thread t: the uds_queue worker when      *)
(* udsStartChunkOperation fails, else the engine's callback thread         *)

Finishers == {"worker", "callback"}

\* finish_index_operation going on to deliver whenever it finds the context
\* BUSY or TIMED_OUT
finish_cas_any_state(t, c) ==
    IF request_state[c] \in {UR_BUSY, UR_TIMED_OUT}
    THEN /\ rs_write(c, UR_IDLE, "finish_index_operation")
         /\ finisher' = [finisher EXCEPT ![t] = [pc |-> "remove", ctx |-> c]]
    ELSE /\ rs_unchanged
         /\ finisher' = [finisher EXCEPT ![t] = [pc |-> "idle", ctx |-> "none"]]

\* lines 280 and 303-307: the compare-and-swap BUSY -> IDLE and, when it
\* fails, the compare-and-swap TIMED_OUT -> IDLE; finisher[t] afterwards
finish_cas(t, c) ==
    IF request_state[c] = UR_BUSY
    THEN /\ rs_write(c, UR_IDLE, "finish_index_operation")
         /\ finisher' = [finisher EXCEPT ![t] = [pc |-> "remove", ctx |-> c]]
    ELSE /\ IF request_state[c] = UR_TIMED_OUT
            THEN rs_write(c, UR_IDLE, "finish_index_operation")
            ELSE rs_unchanged
         /\ finisher' = [finisher EXCEPT ![t] = [pc |-> "idle", ctx |-> "none"]]

\* the worker's position once its inline finish_index_operation has ended
worker_after_finish(t) ==
    IF t = "worker" /\ worker.pc = "finish"
    THEN worker' = IdleWorker
    ELSE UNCHANGED worker

\* lines 284-289: under the pending_lock, unlink the context if pending
finish_remove_pending(t) ==
    LET c == finisher[t].ctx IN
    /\ finisher[t].pc = "remove"
    /\ pending_lock = "free"
    /\ IF is_pending[c]
       THEN \E o \in list_del_outcomes(link, c) :
              /\ link' = o.L
              /\ IF o.fault
                 THEN /\ finisher' = [finisher EXCEPT ![t].pc = "oops"]
                      /\ pending_lock' = t
                      /\ UNCHANGED is_pending
                 ELSE /\ finisher' = [finisher EXCEPT ![t].pc = "deliver"]
                      /\ pending_lock' = "free"
                      /\ is_pending' = [is_pending EXCEPT ![c] = FALSE]
       ELSE /\ finisher' = [finisher EXCEPT ![t].pc = "deliver"]
            /\ pending_lock' = "free"
            /\ UNCHANGED <<link, is_pending>>
    /\ UNCHANGED <<request_state, submission_time, status, advice, uds_request,
                   active, maximum, index_state, index_target, changing,
                   create_flag, dedupe_flag, deduping, error_flag, index_session,
                   started_timer, uds_queue, state_lock, reporter,
                   dedupeContextBusy, jiffies, statistics, pending_timer, dp, worker, timer,
                   control, suspender, engine, awaiting, callbacks, rs_edge,
                   submissions, commands>>

\* lines 291-301: the status and the advice are stored and the callback runs
finish_deliver(t) ==
    LET c == finisher[t].ctx IN
    /\ finisher[t].pc = "deliver"
    /\ status' = [status EXCEPT ![c] = uds_request[c].status]
    /\ advice' = IF uds_request[c].type \in {"UDS_POST", "UDS_QUERY"}
                 THEN [advice EXCEPT ![c] = decode_uds_advice(uds_request[c])]
                 ELSE advice
    /\ invoke_dedupe_callback(c)
    /\ finisher' = [finisher EXCEPT ![t].pc = "count"]
    /\ UNCHANGED <<request_state, is_pending, submission_time, uds_request, link,
                   index_vars, reporter, dedupeContextBusy, jiffies, statistics,
                   pending_timer, dp, worker, timer, control, suspender, engine,
                   rs_edge, submissions, commands>>

\* line 302: atomic_dec(&index->active)
finish_counted(t) ==
    /\ finisher[t].pc = "count"
    /\ active' = active - 1
    /\ finisher' = [finisher EXCEPT ![t] = [pc |-> "idle", ctx |-> "none"]]
    /\ worker_after_finish(t)
    /\ UNCHANGED <<ctx_vars, link, maximum, index_state, index_target, changing,
                   create_flag, dedupe_flag, deduping, error_flag, index_session,
                   started_timer, uds_queue, state_lock, pending_lock, reporter,
                   dedupeContextBusy, jiffies, statistics, pending_timer, dp, timer, control,
                   suspender, engine, awaiting, callbacks, rs_edge, submissions,
                   commands>>

\* the engine completes a chunk operation it holds: it stores the result in
\* the request and calls request->callback on its callback thread
engine_completes(c, reply) ==
    /\ c \in engine.requests
    /\ finisher["callback"].pc = "idle"
    /\ engine' = [engine EXCEPT !.requests = @ \ {c}]
    /\ uds_request' = [uds_request EXCEPT ![c] =
         [@ EXCEPT !.status = reply.status, !.found = reply.found,
                   !.oldMetadata = reply.oldMetadata]]
    /\ finish_cas("callback", c)
    /\ UNCHANGED <<is_pending, submission_time, status, advice, link, index_vars,
                   reporter, dedupeContextBusy, jiffies, statistics, pending_timer, dp,
                   worker, timer, control, suspender, awaiting, callbacks,
                   submissions, commands>>

----------------------------------------------------------------------------
(* start_index_operation, a work item of the uds_queue *)

QueueHead(type) == uds_queue # <<>> /\ Head(uds_queue).type = type

\* lines 370-374: under the pending_lock the context is appended to the
\* pending list and the timer started
start_index_operation(c) ==
    /\ worker.pc = "idle"
    /\ QueueHead("request")
    /\ Head(uds_queue).ctx = c
    /\ pending_lock = "free"
    /\ uds_queue' = Tail(uds_queue)
    /\ link' = list_add_tail(link, c, pending_head)
    /\ is_pending' = [is_pending EXCEPT ![c] = TRUE]
    /\ start_expiration_timer(c)
    /\ pending_lock' = "free"
    /\ worker' = [IdleWorker EXCEPT !.pc = "start_chunk", !.ctx = c]
    /\ UNCHANGED <<request_state, submission_time, status, advice, uds_request,
                   active, maximum, index_state, index_target, changing,
                   create_flag, dedupe_flag, deduping, error_flag, index_session,
                   state_lock, reporter, dedupeContextBusy, jiffies, statistics, dp,
                   finisher, timer, control, suspender, engine, awaiting,
                   callbacks, rs_edge, submissions, commands>>

\* lines 376-381: udsStartChunkOperation returns; on an error the worker
\* stores it in the request and runs finish_index_operation itself
start_chunk_returns(result) ==
    LET c == worker.ctx IN
    /\ worker.pc = "start_chunk"
    /\ IF result = UDS_SUCCESS
       THEN /\ engine' = [engine EXCEPT !.requests = @ \cup {c}]
            /\ worker' = IdleWorker
            /\ UNCHANGED <<uds_request, finisher>>
            /\ rs_unchanged
       ELSE /\ uds_request' = [uds_request EXCEPT ![c].status = result]
            /\ finish_cas("worker", c)
            /\ worker' = IF request_state[c] = UR_BUSY
                         THEN [worker EXCEPT !.pc = "finish"]
                         ELSE IdleWorker
            /\ UNCHANGED engine
    /\ UNCHANGED <<is_pending, submission_time, status, advice, link, index_vars,
                   reporter, dedupeContextBusy, jiffies, statistics, pending_timer, dp,
                   timer, control, suspender, awaiting, callbacks, submissions,
                   commands>>

----------------------------------------------------------------------------
(* timeout_index_operations, the handler of pending_timer *)

\* the timer is armed and its time has come
timer_due ==
    /\ pending_timer.armed
    /\ time_after_eq(jiffies, pending_timer.expires)

\* lines 466-470: the timer fires; the handler takes the pending_lock
timer_fires ==
    /\ timer.pc = "idle"
    /\ timer_due
    /\ pending_lock = "free"
    /\ pending_timer' = [pending_timer EXCEPT !.armed = FALSE]
    /\ link' = INIT_LIST_HEAD(link, expiredHead)
    /\ timer' = [pc |-> "scan", ctx |-> "none",
                 earliest_submission_allowed |-> JSub(jiffies, albireo_timeout_jiffies)]
    /\ pending_lock' = "timer"
    /\ started_timer' = FALSE
    /\ UNCHANGED <<ctx_vars, active, maximum, index_state, index_target, changing,
                   create_flag, dedupe_flag, deduping, error_flag, index_session,
                   uds_queue, state_lock, reporter, dedupeContextBusy, jiffies, statistics,
                   dp, worker, finisher, control, suspender, engine, awaiting,
                   callbacks, rs_edge, submissions, commands>>

\* lines 471-487: one turn of the loop over the pending list
timer_scans ==
    /\ timer.pc = "scan"
    /\ IF list_empty(link, pending_head)
       THEN /\ timer' = [timer EXCEPT !.pc = "expire"]
            /\ pending_lock' = "free"
            /\ UNCHANGED <<link, is_pending, started_timer, pending_timer>>
       ELSE LET c == link[pending_head].next IN
            IF c \notin Contexts
            THEN /\ timer' = [timer EXCEPT !.pc = "oops"]
                 /\ UNCHANGED <<link, is_pending, started_timer, pending_timer,
                                pending_lock>>
            ELSE IF timer.earliest_submission_allowed <= submission_time[c]
            THEN /\ start_expiration_timer(c)
                 /\ timer' = [timer EXCEPT !.pc = "expire"]
                 /\ pending_lock' = "free"
                 /\ UNCHANGED <<link, is_pending>>
            ELSE \E o \in list_del_outcomes(link, c) :
                   IF o.fault
                   THEN /\ timer' = [timer EXCEPT !.pc = "oops"]
                        /\ UNCHANGED <<link, is_pending, started_timer,
                                       pending_timer, pending_lock>>
                   ELSE /\ link' = list_add_tail(o.L, c, expiredHead)
                        /\ is_pending' = [is_pending EXCEPT ![c] = FALSE]
                        /\ UNCHANGED <<timer, started_timer, pending_timer,
                                       pending_lock>>
    /\ UNCHANGED <<request_state, submission_time, status, advice, uds_request,
                   active, maximum, index_state, index_target, changing,
                   create_flag, dedupe_flag, deduping, error_flag, index_session,
                   uds_queue, state_lock, reporter, dedupeContextBusy, jiffies, statistics,
                   dp, worker, finisher, control, suspender, engine, awaiting,
                   callbacks, rs_edge, submissions, commands>>

\* lines 488-498: one turn of the loop over the expired list, up to the
\* compare-and-swap BUSY -> TIMED_OUT
timer_expires ==
    /\ timer.pc = "expire"
    /\ IF list_empty(link, expiredHead)
       THEN /\ timer' = [timer EXCEPT !.pc = "idle"]
            /\ UNCHANGED link
            /\ rs_unchanged
       ELSE LET c == link[expiredHead].next IN
            IF c \notin Contexts
            THEN /\ timer' = [timer EXCEPT !.pc = "oops"]
                 /\ UNCHANGED link
                 /\ rs_unchanged
            ELSE \E o \in list_del_outcomes(link, c) :
                   /\ link' = o.L
                   /\ IF o.fault
                      THEN /\ timer' = [timer EXCEPT !.pc = "oops"]
                           /\ rs_unchanged
                      ELSE IF request_state[c] = UR_BUSY
                      THEN /\ rs_write(c, UR_TIMED_OUT, "timeout_index_operations")
                           /\ timer' = [timer EXCEPT !.pc = "deliver", !.ctx = c]
                      ELSE /\ rs_unchanged
                           /\ UNCHANGED timer
    /\ UNCHANGED <<is_pending, submission_time, status, advice, uds_request,
                   index_vars, reporter, dedupeContextBusy, jiffies, statistics,
                   pending_timer, dp, worker, finisher, control, suspender,
                   engine, awaiting, callbacks, submissions, commands>>

\* lines 499-500: the status is set and the callback runs
timer_delivers ==
    LET c == timer.ctx IN
    /\ timer.pc = "deliver"
    /\ status' = [status EXCEPT ![c] = ETIMEDOUT]
    /\ invoke_dedupe_callback(c)
    /\ timer' = [timer EXCEPT !.pc = "count"]
    /\ UNCHANGED <<request_state, is_pending, submission_time, advice,
                   uds_request, link, index_vars, reporter, dedupeContextBusy,
                   jiffies, statistics, pending_timer, dp, worker, finisher, control,
                   suspender, engine, rs_edge, submissions, commands>>

\* report_dedupe_timeout: the counter, the test-and-set of work_item_queued
\* and the enqueueing of the reporter's work item
report_dedupe_timeout(r) ==
    [r EXCEPT !.value = @ + 1,
              !.work_item_queued = 1,
              !.enqueued = IF r.work_item_queued = 0 THEN @ + 1 ELSE @]

\* at most this many timeouts are reported in a behaviour of the reporter
MaxTimeouts == 4

\* what a step of the reporter leaves alone
reporter_frame ==
    UNCHANGED <<ctx_vars, link, index_vars, dedupeContextBusy, jiffies, statistics,
                pending_timer, thread_vars, engine, awaiting, callbacks, rs_edge,
                submissions, commands>>

\* line 437: atomic64_inc(&reporter->value), in the timer's handler
report_dedupe_timeout_counts ==
    /\ ~reporter.incrementing
    /\ ~reporter.stopped
    /\ reporter.value < MaxTimeouts
    /\ reporter' = [reporter EXCEPT !.value = @ + 1, !.incrementing = TRUE]
    /\ reporter_frame

\* lines 438-444: the test-and-set of work_item_queued and the enqueueing
report_dedupe_timeout_schedules ==
    /\ reporter.incrementing
    /\ reporter' = [reporter EXCEPT
                      !.work_item_queued = 1,
                      !.enqueued = IF reporter.work_item_queued = 0 THEN @ + 1 ELSE @,
                      !.incrementing = FALSE]
    /\ reporter_frame

\* line 393, run by report_events_work: the cpu queue runs the work item once
\* its delay is over, one run at a time
report_events_work ==
    /\ reporter.enqueued > 0
    /\ reporter.pc = "idle"
    /\ reporter' = [reporter EXCEPT !.enqueued = @ - 1, !.work_item_queued = 0,
                                    !.pc = "cleared"]
    /\ reporter_frame

\* line 393, run by stop_periodic_event_reporter in free_dedupe_index, after
\* the last timeout and with no run of the work item in progress
stop_periodic_event_reporter ==
    /\ ~reporter.stopped
    /\ reporter.pc = "idle"
    /\ reporter' = [reporter EXCEPT !.work_item_queued = 0, !.pc = "cleared",
                                    !.stopped = TRUE]
    /\ reporter_frame

\* line 394: new_value = atomic64_read(&reporter->value)
report_events_reads ==
    /\ reporter.pc = "cleared"
    /\ reporter' = [reporter EXCEPT !.new_value = reporter.value, !.pc = "read"]
    /\ reporter_frame

\* report_events storing the counter's present value as the last one reported
report_events_logs_rereads ==
    LET difference == reporter.new_value - reporter.last_reported_value IN
    /\ reporter.pc = "read"
    /\ reporter' = [reporter EXCEPT
                      !.logged = @ + difference,
                      !.last_reported_value = IF difference # 0 THEN reporter.value ELSE @,
                      !.pc = "idle",
                      !.flushed = reporter.stopped]
    /\ reporter_frame

\* lines 395-399: the difference is logged when it is not zero
report_events_logs ==
    LET difference == reporter.new_value - reporter.last_reported_value IN
    /\ reporter.pc = "read"
    /\ reporter' = [reporter EXCEPT
                      !.logged = @ + difference,
                      !.last_reported_value = IF difference # 0 THEN reporter.new_value ELSE @,
                      !.pc = "idle",
                      !.flushed = reporter.stopped]
    /\ reporter_frame

\* lines 501-502: atomic_dec(&index->active) and report_dedupe_timeout
timer_counted ==
    /\ timer.pc = "count"
    /\ active' = active - 1
    /\ reporter' = report_dedupe_timeout(reporter)
    /\ timer' = [timer EXCEPT !.pc = "expire", !.ctx = "none"]
    /\ UNCHANGED <<ctx_vars, link, maximum, index_state, index_target, changing,
                   create_flag, dedupe_flag, deduping, error_flag, index_session,
                   started_timer, uds_queue, state_lock, pending_lock,
                   dedupeContextBusy, jiffies, statistics, pending_timer, dp, worker,
                   finisher, control, suspender, engine, awaiting, callbacks,
                   rs_edge, submissions, commands>>

\* A tick of the clock.  Times are kept in the frame of reference in which
\* the present tick is always JiffiesNow: instead of jiffies going up by one,
\* every recorded time (each submission_time, the timer's expiry) goes down
\* by one.  The code only compares and adds such times, so this is the same
\* computation as long as no counter wraps, and the frame keeps every value
\* away from the wrap.  A submission_time already older than any
\* earliest_submission_allowed to come stays at OldestSubmission, an expiry
\* already reached stays at JiffiesNow.  A timer that is due runs before the
\* next tick, and the handler's critical section takes less than a tick.
tick ==
    /\ ~(timer.pc = "idle" /\ timer_due /\ pending_lock = "free")
    /\ timer.pc # "scan"
    /\ submission_time' =
         [c \in Contexts |-> maxULong(submission_time[c] - 1, OldestSubmission)]
    /\ pending_timer' =
         [pending_timer EXCEPT !.expires = maxULong(@ - 1, JiffiesNow)]
    /\ UNCHANGED <<request_state, is_pending, status, advice, uds_request, link,
                   index_vars, reporter, dedupeContextBusy, jiffies, statistics, thread_vars,
                   engine, awaiting, callbacks, rs_edge, submissions, commands>>

----------------------------------------------------------------------------
(* The session state machine *)

UDS_CORRUPT_COMPONENT == "UDS_CORRUPT_COMPONENT"

UDS_NO_INDEX == "UDS_NO_INDEX"

\* the handle the engine gives the next session it opens
new_session == IF index_session = 1 THEN 2 ELSE 1

\* set_target_state starting a state change without clearing deduping
set_target_state_keeps_deduping(target, change_dedupe, dedupe, set_create) ==
    LET dedupe_flag1 == IF change_dedupe THEN dedupe ELSE dedupe_flag
        create_flag1 == IF set_create THEN TRUE ELSE create_flag
    IN
    /\ state_lock = "free"
    /\ dedupe_flag' = dedupe_flag1
    /\ create_flag' = create_flag1
    /\ IF changing
       THEN /\ index_target' = target
            /\ UNCHANGED <<changing, deduping, uds_queue>>
       ELSE IF (target # index_target) \/ set_create
       THEN /\ index_target' = target
            /\ changing' = TRUE
            /\ UNCHANGED deduping
            /\ uds_queue' = Append(uds_queue, [type |-> "driver", ctx |-> "none"])
       ELSE /\ deduping' = (dedupe_flag1 /\ (index_state = IS_OPENED))
            /\ UNCHANGED <<index_target, changing, uds_queue>>
    /\ state_lock' = "free"
    /\ UNCHANGED <<index_state, error_flag>>

\* set_target_state computing deduping from the dedupe_flag it found
set_target_state_stale_flag(target, change_dedupe, dedupe, set_create) ==
    LET dedupe_flag1 == IF change_dedupe THEN dedupe ELSE dedupe_flag
        create_flag1 == IF set_create THEN TRUE ELSE create_flag
    IN
    /\ state_lock = "free"
    /\ dedupe_flag' = dedupe_flag1
    /\ create_flag' = create_flag1
    /\ IF changing
       THEN /\ index_target' = target
            /\ UNCHANGED <<changing, deduping, uds_queue>>
       ELSE IF (target # index_target) \/ set_create
       THEN /\ index_target' = target
            /\ changing' = TRUE
            /\ deduping' = FALSE
            /\ uds_queue' = Append(uds_queue, [type |-> "driver", ctx |-> "none"])
       ELSE /\ deduping' = (dedupe_flag /\ (index_state = IS_OPENED))
            /\ UNCHANGED <<index_target, changing, uds_queue>>
    /\ state_lock' = "free"
    /\ UNCHANGED <<index_state, error_flag>>

\* set_target_state enqueueing the work item although a change is running
set_target_state_always_enqueues(target, change_dedupe, dedupe, set_create) ==
    LET dedupe_flag1 == IF change_dedupe THEN dedupe ELSE dedupe_flag
        create_flag1 == IF set_create THEN TRUE ELSE create_flag
    IN
    /\ state_lock = "free"
    /\ dedupe_flag' = dedupe_flag1
    /\ create_flag' = create_flag1
    /\ IF changing
       THEN /\ index_target' = target
            /\ uds_queue' = Append(uds_queue, [type |-> "driver", ctx |-> "none"])
            /\ UNCHANGED <<changing, deduping>>
       ELSE IF (target # index_target) \/ set_create
       THEN /\ index_target' = target
            /\ changing' = TRUE
            /\ deduping' = FALSE
            /\ uds_queue' = Append(uds_queue, [type |-> "driver", ctx |-> "none"])
       ELSE /\ deduping' = (dedupe_flag1 /\ (index_state = IS_OPENED))
            /\ UNCHANGED <<index_target, changing, uds_queue>>
    /\ state_lock' = "free"
    /\ UNCHANGED <<index_state, error_flag>>

\* set_target_state starting a change only when the target differs
set_target_state_target_only(target, change_dedupe, dedupe, set_create) ==
    LET dedupe_flag1 == IF change_dedupe THEN dedupe ELSE dedupe_flag
        create_flag1 == IF set_create THEN TRUE ELSE create_flag
    IN
    /\ state_lock = "free"
    /\ dedupe_flag' = dedupe_flag1
    /\ create_flag' = create_flag1
    /\ IF changing
       THEN /\ index_target' = target
            /\ UNCHANGED <<changing, deduping, uds_queue>>
       ELSE IF target # index_target
       THEN /\ index_target' = target
            /\ changing' = TRUE
            /\ deduping' = FALSE
            /\ uds_queue' = Append(uds_queue, [type |-> "driver", ctx |-> "none"])
       ELSE /\ deduping' = (dedupe_flag1 /\ (index_state = IS_OPENED))
            /\ UNCHANGED <<index_target, changing, uds_queue>>
    /\ state_lock' = "free"
    /\ UNCHANGED <<index_state, error_flag>>

\* set_target_state, lines 703-733, as one critical section of the state_lock
set_target_state(target, change_dedupe, dedupe, set_create) ==
    LET dedupe_flag1 == IF change_dedupe THEN dedupe ELSE dedupe_flag
        create_flag1 == IF set_create THEN TRUE ELSE create_flag
    IN
    /\ state_lock = "free"
    /\ dedupe_flag' = dedupe_flag1
    /\ create_flag' = create_flag1
    /\ IF changing
       THEN /\ index_target' = target
            /\ UNCHANGED <<changing, deduping, uds_queue>>
       ELSE IF (target # index_target) \/ set_create
       THEN /\ index_target' = target
            /\ changing' = TRUE
            /\ deduping' = FALSE
            /\ uds_queue' = Append(uds_queue, [type |-> "driver", ctx |-> "none"])
       ELSE /\ deduping' = (dedupe_flag1 /\ (index_state = IS_OPENED))
            /\ UNCHANGED <<index_target, changing, uds_queue>>
    /\ state_lock' = "free"
    /\ UNCHANGED <<index_state, error_flag>>

\* what a command leaves alone
command_frame ==
    UNCHANGED <<ctx_vars, link, active, maximum, index_session, started_timer,
                pending_lock, reporter, dedupeContextBusy, jiffies, statistics,
                pending_timer, dp, worker, finisher, timer, suspender, engine,
                awaiting, callbacks, rs_edge, submissions>>

start_dedupe_index(create) ==
    /\ set_target_state(IS_OPENED, TRUE, TRUE, create)
    /\ control' = "start"
    /\ command_frame

stop_dedupe_index ==
    /\ set_target_state(IS_CLOSED, FALSE, FALSE, FALSE)
    /\ control' = "stop"
    /\ command_frame

\* the names the control thread sends: the four known ones, one of them in
\* another case as well, and a name that is not known
MessageNames == {"index-close", "index-create", "index-disable", "index-enable",
                 "Index-Close", "index-flush"}

\* tolower of each character of a name of MessageNames
ascii_tolower(name) == IF name = "Index-Close" THEN "index-close" ELSE name

\* strcasecmp(a, b) == 0
strcasecmp_equal(a, b) == ascii_tolower(a) = ascii_tolower(b)

\* message_dedupe_index comparing the name with strcmp
message_dedupe_index_exact_case(name) ==
    /\ IF name = "index-close"
       THEN set_target_state(IS_CLOSED, FALSE, FALSE, FALSE) /\ control' = "0"
       ELSE IF name = "index-create"
       THEN set_target_state(IS_OPENED, FALSE, FALSE, TRUE) /\ control' = "0"
       ELSE IF name = "index-disable"
       THEN set_target_state(IS_OPENED, TRUE, FALSE, FALSE) /\ control' = "0"
       ELSE IF name = "index-enable"
       THEN set_target_state(IS_OPENED, TRUE, TRUE, FALSE) /\ control' = "0"
       ELSE /\ control' = "-EINVAL"
            /\ UNCHANGED <<index_state, index_target, changing, create_flag,
                           dedupe_flag, deduping, error_flag, uds_queue,
                           state_lock>>
    /\ command_frame

\* message_dedupe_index; control holds the value returned
message_dedupe_index(name) ==
    /\ IF strcasecmp_equal(name, "index-close")
       THEN set_target_state(IS_CLOSED, FALSE, FALSE, FALSE) /\ control' = "0"
       ELSE IF strcasecmp_equal(name, "index-create")
       THEN set_target_state(IS_OPENED, FALSE, FALSE, TRUE) /\ control' = "0"
       ELSE IF strcasecmp_equal(name, "index-disable")
       THEN set_target_state(IS_OPENED, TRUE, FALSE, FALSE) /\ control' = "0"
       ELSE IF strcasecmp_equal(name, "index-enable")
       THEN set_target_state(IS_OPENED, TRUE, TRUE, FALSE) /\ control' = "0"
       ELSE /\ control' = "-EINVAL"
            /\ UNCHANGED <<index_state, index_target, changing, create_flag,
                           dedupe_flag, deduping, error_flag, uds_queue,
                           state_lock>>
    /\ command_frame

\* the control thread has called finish_dedupe_index
Finishing == control \in {"finish", "freed", "finished"}

\* udsFreeConfiguration(index->configuration) has run
ConfigurationFreed == control \in {"freed", "finished"}

\* finish_dedupe_index, line 763: the device is torn down, no command follows
finish_dedupe_index ==
    /\ ~Finishing
    /\ set_target_state(IS_CLOSED, FALSE, FALSE, FALSE)
    /\ control' = "finish"
    /\ command_frame
    /\ UNCHANGED commands

\* what the rest of finish_dedupe_index leaves alone
finish_frame ==
    UNCHANGED <<ctx_vars, link, index_vars, reporter, dedupeContextBusy, jiffies, statistics,
                pending_timer, dp, worker, finisher, timer, suspender, engine,
                awaiting, callbacks, rs_edge, submissions, commands>>

\* line 764: udsFreeConfiguration(index->configuration)
finish_frees_configuration ==
    /\ control = "finish"
    /\ control' = "freed"
    /\ finish_frame

\* line 765: finish_work_queue returns once the uds_queue has drained and its
\* worker has stopped
finish_work_queue ==
    /\ control = "freed"
    /\ uds_queue = <<>>
    /\ worker.pc = "idle"
    /\ control' = "finished"
    /\ finish_frame

\* what a step of change_dedupe_state leaves alone
driver_frame ==
    UNCHANGED <<ctx_vars, link, active, maximum, started_timer, pending_lock,
                reporter, dedupeContextBusy, jiffies, statistics, pending_timer, dp,
                finisher, timer, control, suspender, awaiting, callbacks,
                rs_edge, submissions, commands>>

\* change_dedupe_state, line 678: the work item starts and takes the lock
change_dedupe_state ==
    /\ worker.pc = "idle"
    /\ QueueHead("driver")
    /\ state_lock = "free"
    /\ uds_queue' = Tail(uds_queue)
    /\ state_lock' = "worker"
    /\ worker' = [IdleWorker EXCEPT !.pc = "loop"]
    /\ UNCHANGED <<index_state, index_target, changing, create_flag, dedupe_flag,
                   deduping, error_flag, index_session, engine>>
    /\ driver_frame

\* change_dedupe_state ending with deduping set from dedupe_flag alone
driver_loop_flag_only ==
    /\ worker.pc = "loop"
    /\ IF (index_state # index_target) \/ create_flag
       THEN IF index_state = IS_OPENED
            THEN /\ index_state' = IS_CHANGING
                 /\ state_lock' = "free"
                 /\ worker' = [worker EXCEPT !.pc = "close"]
                 /\ UNCHANGED <<create_flag, error_flag, changing, deduping>>
            ELSE /\ create_flag' = FALSE
                 /\ index_state' = IS_CHANGING
                 /\ error_flag' = FALSE
                 /\ state_lock' = "free"
                 /\ worker' = [worker EXCEPT
                                 !.pc = IF create_flag THEN "create" ELSE "rebuild",
                                 !.create_flag = create_flag,
                                 !.next_create_flag = FALSE,
                                 !.result = UDS_SUCCESS]
                 /\ UNCHANGED <<changing, deduping>>
       ELSE /\ changing' = FALSE
            /\ deduping' = dedupe_flag
            /\ state_lock' = "free"
            /\ worker' = IdleWorker
            /\ UNCHANGED <<index_state, create_flag, error_flag>>
    /\ UNCHANGED <<index_target, dedupe_flag, index_session, uds_queue, engine>>
    /\ driver_frame

\* change_dedupe_state opening with a rebuild whatever create_flag says
driver_loop_always_rebuilds ==
    /\ worker.pc = "loop"
    /\ IF (index_state # index_target) \/ create_flag
       THEN IF index_state = IS_OPENED
            THEN /\ index_state' = IS_CHANGING
                 /\ state_lock' = "free"
                 /\ worker' = [worker EXCEPT !.pc = "close"]
                 /\ UNCHANGED <<create_flag, error_flag, changing, deduping>>
            ELSE /\ create_flag' = FALSE
                 /\ index_state' = IS_CHANGING
                 /\ error_flag' = FALSE
                 /\ state_lock' = "free"
                 /\ worker' = [worker EXCEPT
                                 !.pc = "rebuild",
                                 !.create_flag = FALSE,
                                 !.next_create_flag = FALSE,
                                 !.result = UDS_SUCCESS]
                 /\ UNCHANGED <<changing, deduping>>
       ELSE /\ changing' = FALSE
            /\ deduping' = (dedupe_flag /\ (index_state = IS_OPENED))
            /\ state_lock' = "free"
            /\ worker' = IdleWorker
            /\ UNCHANGED <<index_state, create_flag, error_flag>>
    /\ UNCHANGED <<index_target, dedupe_flag, index_session, uds_queue, engine>>
    /\ driver_frame

\* lines 682-693, with the lock held: the loop test, then either the part of
\* close_session (561-563) or of open_session (580-587) up to the unlock, or
\* the end of the work item
driver_loop ==
    /\ worker.pc = "loop"
    /\ IF (index_state # index_target) \/ create_flag
       THEN IF index_state = IS_OPENED
            THEN /\ index_state' = IS_CHANGING
                 /\ state_lock' = "free"
                 /\ worker' = [worker EXCEPT !.pc = "close"]
                 /\ UNCHANGED <<create_flag, error_flag, changing, deduping>>
            ELSE /\ create_flag' = FALSE
                 /\ index_state' = IS_CHANGING
                 /\ error_flag' = FALSE
                 /\ state_lock' = "free"
                 /\ worker' = [worker EXCEPT
                                 !.pc = IF create_flag THEN "create" ELSE "rebuild",
                                 !.create_flag = create_flag,
                                 !.next_create_flag = FALSE,
                                 !.result = UDS_SUCCESS]
                 /\ UNCHANGED <<changing, deduping>>
       ELSE /\ changing' = FALSE
            /\ deduping' = (dedupe_flag /\ (index_state = IS_OPENED))
            /\ state_lock' = "free"
            /\ worker' = IdleWorker
            /\ UNCHANGED <<index_state, create_flag, error_flag>>
    /\ UNCHANGED <<index_target, dedupe_flag, index_session, uds_queue, engine>>
    /\ driver_frame

\* close_session, lines 564-572: udsCloseIndexSession returns, the lock is
\* taken again
close_session_returns(result) ==
    /\ worker.pc = "close"
    /\ state_lock = "free"
    /\ engine' = [engine EXCEPT !.session = 0]
    /\ state_lock' = "worker"
    /\ index_state' = IS_CLOSED
    /\ error_flag' = (error_flag \/ (result # UDS_SUCCESS))
    /\ worker' = [worker EXCEPT !.pc = "loop",
                                !.calls = engine_called(@, <<"close", result>>)]
    /\ UNCHANGED <<index_target, changing, create_flag, dedupe_flag, deduping,
                   index_session, uds_queue>>
    /\ driver_frame

\* open_session treating every failure of a rebuild as an error
open_session_locked_no_recreate(create, next_create, result, call) ==
    /\ state_lock = "free"
    /\ IF result = UDS_SUCCESS
       THEN /\ index_state' = IS_OPENED
            /\ create_flag' = (create_flag \/ next_create)
            /\ state_lock' = "worker"
            /\ worker' = [worker EXCEPT !.pc = "loop", !.calls = engine_called(@, call)]
            /\ UNCHANGED <<index_target, error_flag>>
       ELSE /\ index_state' = IS_CLOSED
            /\ index_target' = IS_CLOSED
            /\ error_flag' = TRUE
            /\ create_flag' = (create_flag \/ next_create)
            /\ state_lock' = "free"
            /\ worker' = [worker EXCEPT !.pc = "log", !.calls = engine_called(@, call),
                                        !.failed_at = commands]
    /\ UNCHANGED <<changing, dedupe_flag, deduping, uds_queue>>

\* open_session forgetting next_create_flag
open_session_locked_drops_next_create(create, next_create, result, call) ==
    /\ state_lock = "free"
    /\ IF ~create /\ result \in {UDS_CORRUPT_COMPONENT, UDS_NO_INDEX}
       THEN /\ index_state' = IS_CLOSED
            /\ create_flag' = TRUE
            /\ state_lock' = "worker"
            /\ worker' = [worker EXCEPT !.pc = "loop", !.calls = engine_called(@, call)]
            /\ UNCHANGED <<index_target, error_flag>>
       ELSE IF result = UDS_SUCCESS
       THEN /\ index_state' = IS_OPENED
            /\ state_lock' = "worker"
            /\ worker' = [worker EXCEPT !.pc = "loop", !.calls = engine_called(@, call)]
            /\ UNCHANGED <<index_target, error_flag, create_flag>>
       ELSE /\ index_state' = IS_CLOSED
            /\ index_target' = IS_CLOSED
            /\ error_flag' = TRUE
            /\ state_lock' = "free"
            /\ worker' = [worker EXCEPT !.pc = "log", !.calls = engine_called(@, call),
                                        !.failed_at = commands]
            /\ UNCHANGED create_flag
    /\ UNCHANGED <<changing, dedupe_flag, deduping, uds_queue>>

\* open_session leaving index_target alone when the open failed
open_session_locked_keeps_target(create, next_create, result, call) ==
    /\ state_lock = "free"
    /\ IF ~create /\ result \in {UDS_CORRUPT_COMPONENT, UDS_NO_INDEX}
       THEN /\ index_state' = IS_CLOSED
            /\ create_flag' = TRUE
            /\ state_lock' = "worker"
            /\ worker' = [worker EXCEPT !.pc = "loop", !.calls = engine_called(@, call)]
            /\ UNCHANGED <<index_target, error_flag>>
       ELSE IF result = UDS_SUCCESS
       THEN /\ index_state' = IS_OPENED
            /\ create_flag' = (create_flag \/ next_create)
            /\ state_lock' = "worker"
            /\ worker' = [worker EXCEPT !.pc = "loop", !.calls = engine_called(@, call)]
            /\ UNCHANGED <<index_target, error_flag>>
       ELSE /\ index_state' = IS_CLOSED
            /\ error_flag' = TRUE
            /\ create_flag' = (create_flag \/ next_create)
            /\ state_lock' = "free"
            /\ worker' = [worker EXCEPT !.pc = "log", !.calls = engine_called(@, call),
                                        !.failed_at = commands]
            /\ UNCHANGED index_target
    /\ UNCHANGED <<changing, dedupe_flag, deduping, uds_queue>>

\* open_session, lines 640-667, with the engine's result in hand: the lock
\* is taken again and the state set
open_session_locked(create, next_create, result, call) ==
    /\ state_lock = "free"
    /\ IF ~create /\ result \in {UDS_CORRUPT_COMPONENT, UDS_NO_INDEX}
       THEN /\ index_state' = IS_CLOSED
            /\ create_flag' = TRUE
            /\ state_lock' = "worker"
            /\ worker' = [worker EXCEPT !.pc = "loop", !.calls = engine_called(@, call)]
            /\ UNCHANGED <<index_target, error_flag>>
       ELSE IF result = UDS_SUCCESS
       THEN /\ index_state' = IS_OPENED
            /\ create_flag' = (create_flag \/ next_create)
            /\ state_lock' = "worker"
            /\ worker' = [worker EXCEPT !.pc = "loop", !.calls = engine_called(@, call)]
            /\ UNCHANGED <<index_target, error_flag>>
       ELSE /\ index_state' = IS_CLOSED
            /\ index_target' = IS_CLOSED
            /\ error_flag' = TRUE
            /\ create_flag' = (create_flag \/ next_create)
            /\ state_lock' = "free"
            /\ worker' = [worker EXCEPT !.pc = "log", !.calls = engine_called(@, call),
                                        !.failed_at = commands]
    /\ UNCHANGED <<changing, dedupe_flag, deduping, uds_queue>>

\* lines 590-598: udsCreateLocalIndex returns
create_returns(result) ==
    /\ worker.pc = "create"
    /\ IF result = UDS_SUCCESS
       THEN /\ index_session' = new_session
            /\ engine' = [engine EXCEPT !.session = new_session]
       ELSE UNCHANGED <<index_session, engine>>
    /\ open_session_locked(TRUE, FALSE, result, <<"create", result>>)
    /\ driver_frame

\* lines 600-606: udsRebuildLocalIndex returns; on success the worker goes
\* on to udsGetIndexConfiguration
rebuild_returns(result) ==
    /\ worker.pc = "rebuild"
    /\ IF result = UDS_SUCCESS
       THEN /\ index_session' = new_session
            /\ engine' = [engine EXCEPT !.session = new_session]
            /\ worker' = [worker EXCEPT !.pc = "get_configuration",
                                        !.calls = engine_called(@, <<"rebuild", result>>)]
            /\ UNCHANGED <<index_state, index_target, changing, create_flag,
                           dedupe_flag, deduping, error_flag, uds_queue,
                           state_lock>>
       ELSE /\ UNCHANGED <<index_session, engine>>
            /\ open_session_locked(FALSE, FALSE, result, <<"rebuild", result>>)
    /\ driver_frame

\* lines 608-637: udsGetIndexConfiguration returns an error, or the
\* configuration, whose nonce is the device's or not
get_configuration_returns(outcome) ==
    /\ worker.pc = "get_configuration"
    /\ IF outcome = "error"
       THEN /\ worker' = [worker EXCEPT
                            !.pc = "close_unread", !.result = UDS_ERROR,
                            !.calls = engine_called(@, <<"get_configuration", outcome>>)]
            /\ UNCHANGED <<index_state, index_target, changing, create_flag,
                           dedupe_flag, deduping, error_flag, uds_queue,
                           state_lock>>
       ELSE open_session_locked(FALSE, outcome = "other_nonce", UDS_SUCCESS,
                                <<"get_configuration", outcome>>)
    /\ UNCHANGED <<index_session, engine>>
    /\ driver_frame

\* lines 615-622: the udsCloseIndexSession after a configuration that could
\* not be read returns
close_unread_returns(close_result) ==
    /\ worker.pc = "close_unread"
    /\ engine' = [engine EXCEPT !.session = 0]
    /\ open_session_locked(FALSE, FALSE, worker.result, <<"close", close_result>>)
    /\ UNCHANGED index_session
    /\ driver_frame

\* lines 664-666: after an open that failed, the lock is dropped for the log
\* line and taken again
open_failure_logged ==
    /\ worker.pc = "log"
    /\ state_lock = "free"
    /\ state_lock' = "worker"
    /\ worker' = [worker EXCEPT !.pc = "loop"]
    /\ UNCHANGED <<index_state, index_target, changing, create_flag, dedupe_flag,
                   deduping, error_flag, index_session, uds_queue, engine>>
    /\ driver_frame

----------------------------------------------------------------------------
(* suspend_dedupe_index and its work item suspend_index *)

\* lines 337-347: the work item is enqueued and the caller waits
suspend_dedupe_index(save_flag) ==
    /\ suspender.pc = "idle"
    /\ uds_queue' = Append(uds_queue, [type |-> "suspend", ctx |-> "none"])
    /\ suspender' = [pc |-> "waiting", save_flag |-> save_flag]
    /\ UNCHANGED <<ctx_vars, link, active, maximum, index_state, index_target,
                   changing, create_flag, dedupe_flag, deduping, error_flag,
                   index_session, started_timer, state_lock, pending_lock,
                   reporter, dedupeContextBusy, jiffies, statistics, pending_timer, dp,
                   worker, finisher, timer, control, engine, awaiting, callbacks,
                   rs_edge, submissions>>

\* what a step of suspend_index leaves alone
suspend_frame ==
    UNCHANGED <<ctx_vars, link, active, maximum, index_state, index_target,
                changing, create_flag, dedupe_flag, deduping, error_flag,
                index_session, started_timer, pending_lock, reporter,
                dedupeContextBusy, jiffies, statistics, pending_timer, dp, finisher, timer,
                control, engine, awaiting, callbacks, rs_edge, submissions,
                commands>>

\* suspend_index calling the engine without dropping the state_lock
suspend_index_holds_lock ==
    /\ worker.pc = "idle"
    /\ QueueHead("suspend")
    /\ state_lock = "free"
    /\ uds_queue' = Tail(uds_queue)
    /\ IF index_state = IS_OPENED
       THEN /\ worker' = [IdleWorker EXCEPT
                            !.pc = IF suspender.save_flag THEN "save" ELSE "flush"]
            /\ state_lock' = "worker"
            /\ UNCHANGED suspender
       ELSE /\ worker' = IdleWorker
            /\ state_lock' = "free"
            /\ suspender' = [suspender EXCEPT !.pc = "idle"]
    /\ suspend_frame

\* lines 316-319 and 331: index_state is read under the state_lock; when the
\* index is not open the waiter is completed at once
suspend_index ==
    /\ worker.pc = "idle"
    /\ QueueHead("suspend")
    /\ state_lock = "free"
    /\ uds_queue' = Tail(uds_queue)
    /\ state_lock' = "free"
    /\ IF index_state = IS_OPENED
       THEN /\ worker' = [IdleWorker EXCEPT
                            !.pc = IF suspender.save_flag THEN "save" ELSE "flush"]
            /\ UNCHANGED suspender
       ELSE /\ worker' = IdleWorker
            /\ suspender' = [suspender EXCEPT !.pc = "idle"]
    /\ suspend_frame

\* suspend_index completing the waiter only when the engine call succeeded
suspend_returns_success_only(result) ==
    /\ worker.pc \in {"save", "flush"}
    /\ worker' = IdleWorker
    /\ suspender' = IF result = UDS_SUCCESS
                    THEN [suspender EXCEPT !.pc = "idle"]
                    ELSE suspender
    /\ UNCHANGED <<uds_queue, state_lock>>
    /\ suspend_frame

\* lines 320-331: udsSaveIndex or udsFlushIndexSession returns and the
\* waiter is completed
suspend_returns(result) ==
    /\ worker.pc \in {"save", "flush"}
    /\ worker' = IdleWorker
    /\ suspender' = [suspender EXCEPT !.pc = "idle"]
    /\ UNCHANGED <<uds_queue, state_lock>>
    /\ suspend_frame

----------------------------------------------------------------------------
(* The specifications *)

\* the contexts the data path submits in the specifications below
Submitters == {"c1"}

\* the whole system never has more than this many submissions in a behaviour
MaxSystemSubmissions == 1

\* the steps of the request path that follow a submission
RequestSteps ==
    \/ \E c \in Submitters : enqueue_locked(c)
    \/ \E c \in Submitters : enqueue_counted(c)
    \/ \E c \in Submitters : enqueue_callback(c)
    \/ \E c \in Submitters : start_index_operation(c)
    \/ \E r \in {UDS_SUCCESS, UDS_ERROR} : start_chunk_returns(r)
    \/ \E t \in Finishers : finish_remove_pending(t)
    \/ \E t \in Finishers : finish_deliver(t)
    \/ \E t \in Finishers : finish_counted(t)

\* the steps of the pending timer's handler
TimerSteps ==
    \/ timer_fires
    \/ timer_scans
    \/ timer_expires
    \/ timer_delivers
    \/ timer_counted

\* the steps of the work item change_dedupe_state
DriverSteps ==
    \/ change_dedupe_state
    \/ driver_loop
    \/ \E r \in {UDS_SUCCESS, UDS_ERROR} : close_session_returns(r)
    \/ \E r \in {UDS_SUCCESS, UDS_NO_INDEX, UDS_ERROR} : create_returns(r)
    \/ \E r \in {UDS_SUCCESS, UDS_CORRUPT_COMPONENT, UDS_NO_INDEX, UDS_ERROR} :
          rebuild_returns(r)
    \/ \E o \in {"same_nonce", "other_nonce", "error"} : get_configuration_returns(o)
    \/ \E r \in {UDS_SUCCESS, UDS_ERROR} : close_unread_returns(r)
    \/ open_failure_logged

\* a call of start, stop, message or suspend is counted against MaxCommands
command_counted ==
    /\ commands < MaxCommands
    /\ commands' = commands + 1

\* The whole system, from the state make_dedupe_index returns.
Next ==
    \/ \E c \in Submitters, in \in RequestInputs :
          submissions < MaxSystemSubmissions /\ enqueue_index_operation(c, in)
    \/ RequestSteps
    \/ \E c \in Submitters, reply \in EngineReplies : engine_completes(c, reply)
    \/ TimerSteps
    \/ tick
    \/ command_counted /\ \E create \in BOOLEAN : start_dedupe_index(create)
    \/ command_counted /\ stop_dedupe_index
    \/ command_counted /\ \E name \in MessageNames : message_dedupe_index(name)
    \/ DriverSteps
    \/ command_counted /\ \E f \in BOOLEAN : suspend_dedupe_index(f)
    \/ suspend_index
    \/ \E r \in {UDS_SUCCESS, UDS_ERROR} : suspend_returns(r)

Spec == Init /\ [][Next]_vars

\* at most this many start/stop/message/suspend calls in a behaviour of the
\* session state machine alone
MaxSessionCommands == 3

\* a command is counted; none is issued once finish_dedupe_index is called
session_command_counted ==
    /\ ~Finishing
    /\ commands < MaxSessionCommands
    /\ commands' = commands + 1

\* the steps of finish_dedupe_index
FinishIndexSteps ==
    \/ finish_dedupe_index
    \/ finish_frees_configuration
    \/ finish_work_queue

\* The session state machine alone: the commands, the driver, suspend and
\* the teardown, with no request submitted.
NextSession ==
    \/ session_command_counted /\ \E create \in BOOLEAN : start_dedupe_index(create)
    \/ session_command_counted /\ stop_dedupe_index
    \/ session_command_counted /\ \E name \in MessageNames : message_dedupe_index(name)
    \/ DriverSteps
    \/ session_command_counted /\ \E f \in BOOLEAN : suspend_dedupe_index(f)
    \/ suspend_index
    \/ \E r \in {UDS_SUCCESS, UDS_ERROR} : suspend_returns(r)
    \/ FinishIndexSteps

SpecSession == Init /\ [][NextSession]_vars

\* The state after start_dedupe_index(true) and a driver run whose
\* udsCreateLocalIndex succeeded: the index is open and deduping,
\* at tick now of the clock.
InitOpenedAt(now) ==
    /\ request_state = [c \in Contexts |-> UR_IDLE]
    /\ is_pending = [c \in Contexts |-> FALSE]
    /\ submission_time = [c \in Contexts |-> JSub(now, albireo_timeout_jiffies + 1)]
    /\ status = [c \in Contexts |-> UDS_SUCCESS]
    /\ advice = [c \in Contexts |-> NoAdvice]
    /\ uds_request = [c \in Contexts |-> ZeroRequest]
    /\ link = [n \in Nodes |->
                 IF n \in Contexts THEN [next |-> "NULL", prev |-> "NULL"]
                 ELSE [next |-> n, prev |-> n]]
    /\ active = 0
    /\ maximum = 0
    /\ index_state = IS_OPENED
    /\ index_target = IS_OPENED
    /\ changing = FALSE
    /\ create_flag = FALSE
    /\ dedupe_flag = TRUE
    /\ deduping = TRUE
    /\ error_flag = FALSE
    /\ index_session = 1
    /\ started_timer = FALSE
    /\ uds_queue = <<>>
    /\ state_lock = "free"
    /\ pending_lock = "free"
    /\ reporter = IdleReporter
    /\ dedupeContextBusy = 0
    /\ jiffies = now
    /\ statistics = IdleStatistics
    /\ pending_timer = [armed |-> FALSE, expires |-> now]
    /\ dp = [c \in Contexts |-> "idle"]
    /\ worker = IdleWorker
    /\ finisher = [t \in Finishers |-> [pc |-> "idle", ctx |-> "none"]]
    /\ timer = [pc |-> "idle", earliest_submission_allowed |-> JSub(now, albireo_timeout_jiffies + 1),
                ctx |-> "none"]
    /\ control = "start"
    /\ suspender = [pc |-> "idle", save_flag |-> FALSE]
    /\ engine = [requests |-> {}, session |-> 1]
    /\ awaiting = [c \in Contexts |-> FALSE]
    /\ callbacks = [c \in Contexts |-> 0]
    /\ rs_edge = [c \in Contexts |-> <<UR_IDLE, UR_IDLE, "make_dedupe_index">>]
    /\ submissions = 0
    /\ commands = 0

\* the same state at the tick the moving frame of tick keeps
InitOpened == InitOpenedAt(JiffiesNow)

\* The request lifecycle on an open index: submissions, the worker, the
\* engine's completions, the timer and the clock.
NextLifecycle ==
    \/ \E c \in Submitters, in \in RequestInputs : enqueue_index_operation(c, in)
    \/ RequestSteps
    \/ \E c \in Submitters, reply \in EngineReplies : engine_completes(c, reply)
    \/ TimerSteps
    \/ tick

\* The request lifecycle while index-disable and index-enable messages switch
\* deduping off and on.
NextRequest ==
    \/ NextLifecycle
    \/ /\ \E name \in {"index-disable", "index-enable"} : message_dedupe_index(name)
       /\ UNCHANGED commands

SpecRequest == InitOpened /\ [][NextRequest]_vars

----------------------------------------------------------------------------
(* The request lifecycle: callbacks and request_state *)

\* C1: every call of post/query/update on a context causes exactly one
\* invocation of the data-path callback for that submission; no submission
\* ever gets a second one.
C1_ExactlyOneCallback ==
    \A c \in Contexts : callbacks[c] <= 1

\* the transitions of request_state, each with the function that may make it
AllowedEdges ==
    { <<UR_IDLE, UR_IDLE, "make_dedupe_index">>,
      <<UR_IDLE, UR_BUSY, "enqueue_index_operation">>,
      <<UR_BUSY, UR_IDLE, "enqueue_index_operation">>,
      <<UR_BUSY, UR_IDLE, "finish_index_operation">>,
      <<UR_BUSY, UR_TIMED_OUT, "timeout_index_operations">>,
      <<UR_TIMED_OUT, UR_IDLE, "finish_index_operation">> }

\* C2: request_state is always IDLE, BUSY or TIMED_OUT and the last
\* transition of every context is IDLE->BUSY made by enqueue_index_operation,
\* BUSY->IDLE, BUSY->TIMED_OUT made by timeout_index_operations or
\* TIMED_OUT->IDLE made by finish_index_operation.
C2_OnlyAllowedEdges ==
    \A c \in Contexts :
        /\ request_state[c] \in {UR_IDLE, UR_BUSY, UR_TIMED_OUT}
        /\ rs_edge[c] \in AllowedEdges

\* no thread is inside enqueue_index_operation, finish_index_operation or
\* timeout_index_operations
Quiescent ==
    /\ \A c \in Contexts : dp[c] = "idle"
    /\ \A t \in Finishers : finisher[t].pc = "idle"
    /\ timer.pc = "idle"

\* C8: at every quiescent point active equals the number of contexts whose
\* request_state is BUSY or TIMED_OUT.
C8_ActiveCountsBusyAndTimedOut ==
    Quiescent =>
        active = Cardinality({c \in Contexts :
                                request_state[c] \in {UR_BUSY, UR_TIMED_OUT}})

\* the engine completes, in this step, the request of a context that the
\* timer has moved to TIMED_OUT
LateCompletion(c) ==
    /\ request_state[c] = UR_TIMED_OUT
    /\ c \in engine.requests
    /\ c \notin engine'.requests

\* C4: when the engine completes a request that the timer path has moved
\* BUSY->TIMED_OUT, finish_index_operation invokes no callback, does not
\* decrement active, leaves the context's status and advice alone, sets
\* request_state to IDLE and returns.
C4_LateCompletionIsSilent ==
    [][\A c \in Contexts :
          LateCompletion(c) =>
              /\ callbacks' = callbacks
              /\ awaiting' = awaiting
              /\ active' = active
              /\ status'[c] = status[c]
              /\ advice'[c] = advice[c]
              /\ request_state'[c] = UR_IDLE
              /\ finisher'["callback"].pc = "idle"]_vars

\* a late completion has happened: the context timed out, the engine has
\* given the request back and the context still holds the timer's status
C4_Witness ==
    \E c \in Contexts :
        /\ rs_edge[c] = <<UR_TIMED_OUT, UR_IDLE, "finish_index_operation">>
        /\ c \notin engine.requests
        /\ status[c] = ETIMEDOUT
        /\ callbacks[c] = 1
        /\ active = 0

\* the uds_queue holds a work item of context c
Queued(c) ==
    \E i \in 1..Len(uds_queue) :
        uds_queue[i].type = "request" /\ uds_queue[i].ctx = c

\* C5: a call of post/query/update on an IDLE context while deduping is
\* false enqueues no work item, leaves active, maximum and the pending list
\* alone, and its callback runs with status SUCCESS, no advice, request_state
\* IDLE, the context not pending and no chunk operation started for it.
C5_NotDedupingPath ==
    [][\A c \in Contexts :
          /\ (dp[c] = "cas_ok" /\ dp'[c] = "not_deduping") =>
                 /\ uds_queue' = uds_queue
                 /\ active' = active
                 /\ maximum' = maximum
                 /\ is_pending' = is_pending
                 /\ link' = link
          /\ (dp[c] = "not_deduping" /\ dp'[c] = "idle") =>
                 /\ callbacks'[c] = callbacks[c] + 1
                 /\ status[c] = UDS_SUCCESS
                 /\ advice[c] = NoAdvice
                 /\ request_state[c] = UR_IDLE
                 /\ ~is_pending[c]
                 /\ ~Queued(c)
                 /\ c \notin engine.requests
                 /\ ~(worker.pc = "start_chunk" /\ worker.ctx = c)
                 /\ uds_queue' = uds_queue
                 /\ active' = active
                 /\ maximum' = maximum]_vars

\* C6: a call of post/query/update on a context whose request_state is not
\* IDLE adds one to the context-busy counter and goes straight to the
\* callback; it enqueues nothing and leaves active, request_state and the
\* UdsRequest of the context as they are.
C6_StaleContextPath ==
    [][\A c \in Contexts :
          /\ (dp[c] = "idle" /\ dp'[c] # "idle" /\ request_state[c] # UR_IDLE) =>
                 /\ dp'[c] = "stale"
                 /\ dedupeContextBusy' = dedupeContextBusy + 1
                 /\ uds_queue' = uds_queue
                 /\ active' = active
                 /\ request_state' = request_state
                 /\ uds_request'[c] = uds_request[c]
          /\ (dp[c] = "stale" /\ dp'[c] # "stale") =>
                 /\ dp'[c] = "idle"
                 /\ callbacks'[c] = callbacks[c] + 1
                 /\ dedupeContextBusy' = dedupeContextBusy
                 /\ uds_queue' = uds_queue
                 /\ active' = active
                 /\ request_state' = request_state
                 /\ uds_request'[c] = uds_request[c]]_vars

\* a submission on a stale context got its callback while the timed-out
\* request of the context is still with the engine
C6_Witness ==
    \E c \in Contexts :
        /\ dedupeContextBusy = 1
        /\ dp[c] = "idle"
        /\ callbacks[c] = 1
        /\ ~awaiting[c]
        /\ request_state[c] = UR_TIMED_OUT
        /\ c \in engine.requests
        /\ submissions = 2

----------------------------------------------------------------------------
(* Delivery under fair scheduling *)

\* the data path's thread goes on with the call it is in
DataPathSteps ==
    \E c \in Submitters :
        enqueue_locked(c) \/ enqueue_counted(c) \/ enqueue_callback(c)

\* the worker of the uds_queue runs the request work items
WorkerSteps ==
    \/ \E c \in Submitters : start_index_operation(c)
    \/ \E r \in {UDS_SUCCESS, UDS_ERROR} : start_chunk_returns(r)

\* a thread inside finish_index_operation goes on
FinishSteps ==
    \E t \in Finishers :
        finish_remove_pending(t) \/ finish_deliver(t) \/ finish_counted(t)

\* The request lifecycle with time advancing and every thread that is inside
\* a function scheduled; the engine need not complete anything.
FairSpecLifecycle ==
    /\ InitOpened
    /\ [][NextLifecycle]_vars
    /\ WF_vars(DataPathSteps)
    /\ WF_vars(WorkerSteps)
    /\ WF_vars(FinishSteps)
    /\ WF_vars(TimerSteps)
    /\ WF_vars(tick)

\* C7: every request whose work item was enqueued while deduping was true
\* eventually has its data-path callback delivered, whether or not the
\* engine completes the chunk operation.
C7_AcceptedIsAnswered ==
    \A c \in Contexts :
        (dp[c] = "enqueued" /\ awaiting[c]) ~> ~awaiting[c]

----------------------------------------------------------------------------
(* The session state machine and the locks *)

\* C3: whenever the state lock is free, deduping implies that dedupe_flag is
\* set and that the index is open.
C3_DedupingImpliesOpened ==
    (state_lock = "free") =>
        (deduping => (dedupe_flag /\ index_state = IS_OPENED))

\* deduping is on again in the second session the driver opened
C3_Witness ==
    /\ state_lock = "free"
    /\ deduping
    /\ index_session = 2
    /\ commands = MaxSessionCommands

\* where the worker is while it is inside a call of the engine
EngineCalls ==
    {"start_chunk", "close", "create", "rebuild", "get_configuration",
     "close_unread", "save", "flush"}

\* C9: the worker, the only thread that calls the engine, holds neither the
\* state lock nor the pending lock while it is inside an engine call, and the
\* driver holds the state lock again whenever it is back at its loop.
C9_NoEngineCallUnderLock ==
    /\ (worker.pc \in EngineCalls) =>
           (state_lock # "worker" /\ pending_lock # "worker")
    /\ (worker.pc = "loop") => (state_lock = "worker")

\* the driver is inside udsCloseIndexSession with the state lock free
C9_Witness ==
    /\ worker.pc = "close"
    /\ index_state = IS_CHANGING
    /\ engine.session # 0
    /\ state_lock = "free"

\* in this step a request work item is put on the uds_queue
RequestEnqueued ==
    /\ Len(uds_queue') = Len(uds_queue) + 1
    /\ uds_queue'[Len(uds_queue')].type = "request"

\* C10: a chunk operation is started, and a request work item waits in the
\* uds_queue, only while the index is open, and no request work item is
\* enqueued while a state change is under way.
C10_NoChunkOperationUnlessOpened ==
    /\ []((worker.pc = "start_chunk" \/ \E c \in Contexts : Queued(c)) =>
              index_state = IS_OPENED)
    /\ [][RequestEnqueued => (deduping /\ ~changing)]_vars

\* a chunk operation is being started while the driver of a later state
\* change waits behind it in the uds_queue
C10_Witness ==
    /\ worker.pc = "start_chunk"
    /\ changing
    /\ QueueHead("driver")
    /\ index_state = IS_OPENED

----------------------------------------------------------------------------
(* The driver's handling of what the engine returns *)

\* the session state machine under fair scheduling: the worker of the
\* uds_queue keeps running its work items and the engine's calls return
FairSpecSession ==
    /\ Init
    /\ [][NextSession]_vars
    /\ WF_vars(DriverSteps)
    /\ WF_vars(suspend_index)
    /\ WF_vars(\E r \in {UDS_SUCCESS, UDS_ERROR} : suspend_returns(r))

\* start_dedupe_index is the only command issued so far
StartAlone == commands = 1 /\ control = "start"

\* this run's first call was a rebuild that found no index it could recover
RebuildFoundNoIndex ==
    /\ Len(worker.calls) >= 1
    /\ worker.calls[1][1] = "rebuild"
    /\ worker.calls[1][2] \in {UDS_CORRUPT_COMPONENT, UDS_NO_INDEX}

\* C11: after start(create=false) alone, a rebuild that returns
\* CORRUPT_COMPONENT or NO_INDEX leaves index_state CLOSED with create_flag
\* set, the driver's next call is the create, and when the create succeeds
\* the driver ends with index_state OPENED and error_flag, create_flag and
\* changing all false.
C11_RebuildFallsBackToCreate ==
    /\ []((StartAlone /\ worker.pc = "loop" /\ Len(worker.calls) = 1
             /\ RebuildFoundNoIndex)
          => (index_state = IS_CLOSED /\ create_flag))
    /\ [][(StartAlone /\ StartAlone' /\ worker.pc = "loop"
             /\ Len(worker.calls) = 1 /\ RebuildFoundNoIndex /\ worker' # worker)
          => worker'.pc = "create"]_vars
    /\ [][(StartAlone /\ StartAlone' /\ worker.pc = "loop"
             /\ Len(worker.calls) = 2 /\ RebuildFoundNoIndex
             /\ worker.calls[2] = <<"create", UDS_SUCCESS>> /\ worker' # worker)
          => (/\ worker'.pc = "idle"
              /\ index_state' = IS_OPENED
              /\ ~error_flag'
              /\ ~create_flag'
              /\ ~changing')]_vars

\* the driver is about to end after a rebuild that found no index and a
\* create that succeeded
C11_Witness ==
    /\ StartAlone
    /\ worker.pc = "loop"
    /\ worker.calls = <<<<"rebuild", UDS_NO_INDEX>>, <<"create", UDS_SUCCESS>>>>
    /\ index_state = IS_OPENED

\* this run began with a rebuild that succeeded on an index of another device
NonceMismatch ==
    /\ Len(worker.calls) >= 2
    /\ worker.calls[1] = <<"rebuild", UDS_SUCCESS>>
    /\ worker.calls[2] = <<"get_configuration", "other_nonce">>

\* the names of this run's calls that open or close a session
SessionCallNames ==
    LET opens == SelectSeq(worker.calls, LAMBDA e : e[1] # "get_configuration")
    IN  [i \in 1..Len(opens) |-> opens[i][1]]

IsPrefix(a, b) == Len(a) <= Len(b) /\ a = SubSeq(b, 1, Len(a))

\* C12: after start(create=false) alone, when the rebuild succeeds on an
\* index whose nonce is not the device's, the engine is called with rebuild,
\* close, create in that order, deduping is false until the create has
\* returned, and when the create succeeds the driver ends with index_state
\* OPENED and create_flag and changing false.
C12_OtherNonceRecreates ==
    /\ []((StartAlone /\ NonceMismatch)
          => (/\ IsPrefix(SessionCallNames, <<"rebuild", "close", "create">>)
              /\ ~deduping))
    /\ [][(StartAlone /\ StartAlone' /\ NonceMismatch /\ worker.pc = "loop"
             /\ worker'.pc = "idle")
          => (/\ SessionCallNames = <<"rebuild", "close", "create">>
              /\ (worker.calls[4][2] = UDS_SUCCESS
                  => (index_state' = IS_OPENED /\ ~create_flag' /\ ~changing')))]_vars

\* the driver is about to end after rebuild, close and a create that succeeded
C12_Witness ==
    /\ StartAlone
    /\ NonceMismatch
    /\ worker.pc = "loop"
    /\ Len(worker.calls) = 4
    /\ worker.calls[4] = <<"create", UDS_SUCCESS>>
    /\ index_state = IS_OPENED

\* the latest call of this run was an open that failed for good: a create
\* that failed, a rebuild that failed with something other than
\* CORRUPT_COMPONENT or NO_INDEX, or the close after a configuration that
\* could not be read
LastOpenFailed ==
    LET n == Len(worker.calls) IN
    /\ n >= 1
    /\ \/ worker.calls[n][1] = "create" /\ worker.calls[n][2] # UDS_SUCCESS
       \/ /\ worker.calls[n][1] = "rebuild"
          /\ worker.calls[n][2] \notin {UDS_SUCCESS, UDS_CORRUPT_COMPONENT, UDS_NO_INDEX}
       \/ /\ n >= 2
          /\ worker.calls[n][1] = "close"
          /\ worker.calls[n - 1] = <<"get_configuration", "error">>

\* C13: once an open has failed with an error other than a rebuild's
\* CORRUPT_COMPONENT or NO_INDEX, and no command has arrived since, the
\* driver's next step ends the run with index_state CLOSED, index_target
\* CLOSED, error_flag set and deduping false: it makes no further open call.
C13_FailedOpenRests ==
    [][(worker.pc = "loop" /\ LastOpenFailed /\ worker.failed_at = commands
          /\ worker' # worker)
       => (/\ worker'.pc = "idle"
           /\ index_state' = IS_CLOSED
           /\ index_target' = IS_CLOSED
           /\ error_flag'
           /\ ~deduping')]_vars

----------------------------------------------------------------------------
(* The commands *)

\* what a message that needs no state change leaves alone
NoSessionTransition ==
    /\ uds_queue' = uds_queue
    /\ engine' = engine
    /\ worker' = worker
    /\ UNCHANGED <<index_state, index_target, create_flag, error_flag, changing>>

\* C14: with the index open, its target OPENED and no change in progress,
\* index-disable clears dedupe_flag and deduping and index-enable sets them,
\* within the call, with nothing enqueued, no engine call, and index_state,
\* index_target, create_flag and error_flag unchanged.
C14_OnlineOfflineImmediate ==
    [][(index_state = IS_OPENED /\ index_target = IS_OPENED /\ ~changing)
       => (/\ message_dedupe_index("index-disable")
              => (~dedupe_flag' /\ ~deduping' /\ NoSessionTransition)
           /\ message_dedupe_index("index-enable")
              => (dedupe_flag' /\ deduping' /\ NoSessionTransition))]_vars

\* the index is open and was taken offline by a message
C14_Witness ==
    /\ control = "0"
    /\ index_state = IS_OPENED
    /\ index_target = IS_OPENED
    /\ ~changing
    /\ ~dedupe_flag
    /\ ~deduping
    /\ uds_queue = <<>>
    /\ worker.pc = "idle"

\* the four names message_dedupe_index knows, matched without regard to case
KnownName(name) ==
    ascii_tolower(name) \in
        {"index-close", "index-create", "index-disable", "index-enable"}

\* C15: a message whose name is none of the four known names returns
\* -EINVAL, changes no state field and enqueues nothing; a message with one
\* of the four names returns 0.
C15_UnknownMessageRejected ==
    [][\A name \in MessageNames :
         message_dedupe_index(name)
         => IF KnownName(name)
            THEN control' = "0"
            ELSE /\ control' = "-EINVAL"
                 /\ uds_queue' = uds_queue
                 /\ UNCHANGED <<index_state, index_target, changing, create_flag,
                                dedupe_flag, deduping, error_flag>>]_vars

\* an unknown message was rejected while a state change was in progress
C15_Witness ==
    /\ control = "-EINVAL"
    /\ changing

----------------------------------------------------------------------------
(* suspend *)

\* a step of suspend_dedupe_index or of its work item
SuspendStep ==
    \/ \E f \in BOOLEAN : suspend_dedupe_index(f)
    \/ suspend_index
    \/ worker.pc \in {"save", "flush"} /\ worker' # worker

\* C16: suspend returns once the worker has run its work item, whether or not
\* the session is open and whatever save or flush returns; the work item
\* calls save (save_flag) or flush (otherwise) once if the index is open
\* when it runs and neither otherwise; the session stays open during the
\* call; no step of suspend changes a state field.
C16_SuspendCompletes ==
    /\ [](worker.pc \in {"save", "flush"}
          => (/\ index_state = IS_OPENED
              /\ engine.session = index_session
              /\ engine.session # 0
              /\ suspender.pc = "waiting"
              /\ (worker.pc = "save") = suspender.save_flag))
    /\ [][suspend_index
          => IF index_state = IS_OPENED
             THEN worker'.pc \in {"save", "flush"} /\ suspender'.pc = "waiting"
             ELSE worker'.pc = "idle" /\ suspender'.pc = "idle"]_vars
    /\ [][(worker.pc \in {"save", "flush"} /\ worker' # worker)
          => (worker'.pc = "idle" /\ suspender'.pc = "idle")]_vars
    /\ [][SuspendStep
          => UNCHANGED <<index_state, index_target, changing, create_flag,
                         dedupe_flag, deduping, error_flag, index_session>>]_vars
    /\ (suspender.pc = "waiting" ~> suspender.pc = "idle")

\* the worker is inside udsSaveIndex for a waiting suspend
C16_Witness ==
    /\ worker.pc = "save"
    /\ suspender.pc = "waiting"
    /\ index_state = IS_OPENED

----------------------------------------------------------------------------
(* Teardown *)

\* the worker is inside udsCreateLocalIndex, which was handed
\* index->configuration, or has the configuration of the rebuilt index in
\* hand and compares its nonce with that of index->configuration next
DriverUsesConfiguration == worker.pc \in {"create", "get_configuration"}

\* C18: the configuration is not freed while a run of the driver still uses
\* it: whenever udsFreeConfiguration has run, the worker is neither creating
\* an index nor about to compare nonces.
C18_ConfigurationOutlivesDriver ==
    ConfigurationFreed => ~DriverUsesConfiguration

----------------------------------------------------------------------------
(* The timeout reporter *)

\* The reporter alone: timeouts counted by the timer's handler, runs of the
\* work item, and the flush of free_dedupe_index.
NextReporter ==
    \/ report_dedupe_timeout_counts
    \/ report_dedupe_timeout_schedules
    \/ report_events_work
    \/ report_events_reads
    \/ report_events_logs
    \/ stop_periodic_event_reporter

SpecReporter == Init /\ [][NextReporter]_vars

----------------------------------------------------------------------------
(* The advice codec and the result of a completed request *)

\* the largest block number of the advice the data path posts: 2^31 - 1
MaxPbn == 32767 * 65536 + 65535

\* the advice the index holds for each chunk name, as the data path posted it
StoredAdvice ==
    [chunk \in {"H0", "H1", "H2", "H3"} |->
       CASE chunk = "H0" -> [state |-> 0, pbn |-> 0]
         [] chunk = "H1" -> [state |-> 7, pbn |-> 42]
         [] chunk = "H2" -> [state |-> 255, pbn |-> MaxPbn]
         [] chunk = "H3" -> [state |-> 2, pbn |-> 16777216 + 513]]

\* what the data path passes to post/query/update
CodecInputs ==
    { [op |-> op, chunk |-> chunk, advice |-> StoredAdvice[chunk]] :
        op \in {"UDS_POST", "UDS_QUERY", "UDS_UPDATE"},
        chunk \in DOMAIN StoredAdvice }

\* what the engine reports for the request of context c: the payload an
\* earlier post of the same chunk stored, as the current coordinator or as
\* one of another version wrote it, or nothing
CodecReplies(c) ==
    LET stored == encode_uds_advice(StoredAdvice[uds_request[c].chunkName])
    IN  { [status |-> UDS_SUCCESS, found |-> TRUE, oldMetadata |-> stored],
          [status |-> UDS_SUCCESS, found |-> TRUE,
           oldMetadata |-> [stored EXCEPT ![1] = 1]],
          [status |-> UDS_SUCCESS, found |-> FALSE, oldMetadata |-> stored],
          [status |-> UDS_ERROR, found |-> TRUE, oldMetadata |-> stored] }

\* Requests on an open index that the engine always answers in time.
NextCodec ==
    \/ \E c \in Submitters, in \in CodecInputs : enqueue_index_operation(c, in)
    \/ \E c \in Submitters : enqueue_locked(c)
    \/ \E c \in Submitters : enqueue_counted(c)
    \/ \E c \in Submitters : start_index_operation(c)
    \/ \E r \in {UDS_SUCCESS, UDS_ERROR} : start_chunk_returns(r)
    \/ \E t \in Finishers : finish_remove_pending(t)
    \/ \E t \in Finishers : finish_deliver(t)
    \/ \E t \in Finishers : finish_counted(t)
    \/ \E c \in Submitters :
         c \in engine.requests /\ \E reply \in CodecReplies(c) : engine_completes(c, reply)

SpecCodec == InitOpened /\ [][NextCodec]_vars

\* the value of a little-endian byte string of at most four significant bytes
LittleEndian(bytes) ==
    bytes[1] + 256 * bytes[2] + 65536 * bytes[3] + 16777216 * bytes[4]

\* C19: post and update write ten bytes: version 2, the state, the block
\* number least significant byte first.  When finish_index_operation delivers,
\* the context's status is the engine's; for a post or a query the advice is
\* the stored (state, pbn) when the engine reports success and found and the
\* version byte is 2, and no advice otherwise; an update reports no advice.
C19_CompletionResult ==
    /\ [](\A c \in Submitters :
            (request_state[c] = UR_BUSY
               /\ uds_request[c].type \in {"UDS_POST", "UDS_UPDATE"})
            => LET posted == StoredAdvice[uds_request[c].chunkName]
                   bytes == uds_request[c].newMetadata
               IN  /\ Len(bytes) = UDS_ADVICE_SIZE
                   /\ bytes[1] = 2
                   /\ bytes[2] = posted.state
                   /\ LittleEndian(SubSeq(bytes, 3, 6)) = posted.pbn
                   /\ SubSeq(bytes, 7, 10) = <<0, 0, 0, 0>>)
    /\ [][\A t \in Finishers :
            (finisher[t].pc = "deliver" /\ finisher'[t].pc = "count")
            => LET c == finisher[t].ctx
                   stored == StoredAdvice[uds_request[c].chunkName]
               IN  /\ status'[c] = uds_request[c].status
                   /\ IF uds_request[c].type = "UDS_UPDATE"
                      THEN advice'[c] = advice[c]
                      ELSE IF /\ uds_request[c].status = UDS_SUCCESS
                              /\ uds_request[c].found
                              /\ uds_request[c].oldMetadata[1] = 2
                      THEN advice'[c] = [valid |-> TRUE, state |-> stored.state,
                                         pbn |-> stored.pbn]
                      ELSE ~advice'[c].valid]_vars

\* a query was answered with the advice of the largest block number
C19_Witness ==
    /\ finisher["callback"].pc = "count"
    /\ uds_request["c1"].type = "UDS_QUERY"
    /\ advice["c1"] = [valid |-> TRUE, state |-> 255, pbn |-> MaxPbn]

----------------------------------------------------------------------------
(* The pending list *)

\* Two data-path threads submit on an open index while the clock advances.
NextPending ==
    \/ \E c \in Contexts, in \in {CHOOSE in \in RequestInputs : in.op = "UDS_QUERY"} :
          enqueue_index_operation(c, in)
    \/ \E c \in Contexts : enqueue_locked(c)
    \/ \E c \in Contexts : enqueue_counted(c)
    \/ \E c \in Contexts : enqueue_callback(c)
    \/ \E c \in Contexts : start_index_operation(c)
    \/ \E r \in {UDS_SUCCESS, UDS_ERROR} : start_chunk_returns(r)
    \/ \E t \in Finishers : finish_remove_pending(t)
    \/ \E t \in Finishers : finish_deliver(t)
    \/ \E t \in Finishers : finish_counted(t)
    \/ \E c \in Contexts :
         engine_completes(c, [status |-> UDS_SUCCESS, found |-> FALSE,
                              oldMetadata |-> ZeroMetadata])
    \/ TimerSteps
    \/ tick

SpecPending == InitOpened /\ [][NextPending]_vars

\* C20: whenever the pending lock is free, a context on the pending list was
\* submitted no later than the context that follows it.
C20_PendingListOrdered ==
    (pending_lock = "free")
    => \A a, b \in Contexts :
         (is_pending[a] /\ is_pending[b] /\ link[a].next = b)
         => submission_time[a] <= submission_time[b]

----------------------------------------------------------------------------
(* The pending list and the timer *)

RECURSIVE ListWalk(_, _, _)
\* the contexts met from node on, following next for at most fuel entries
ListWalk(L, node, fuel) ==
    IF fuel = 0 \/ node \notin Contexts
    THEN {}
    ELSE {node} \cup ListWalk(L, L[node].next, fuel - 1)

\* the contexts linked on the list of head
OnList(head) == ListWalk(link, link[head].next, Cardinality(Contexts))

\* C21: whenever the pending lock is free, the contexts linked on the pending
\* list are those whose is_pending is true, and while the timer's handler runs
\* no context is linked on the pending list and on the handler's expired list.
C21_PendingIffLinked ==
    (pending_lock = "free")
    => /\ \A c \in Contexts : (c \in OnList(pending_head)) <=> is_pending[c]
       /\ (timer.pc # "idle")
          => (OnList(pending_head) \cap OnList(expiredHead) = {})

\* the tick at which the running handler of the timer fired
TimerNow == JAdd(timer.earliest_submission_allowed, albireo_timeout_jiffies)

\* C22: when the timer's handler looks at a request that is alone on the
\* pending list, still BUSY and submitted at least the timeout ago, it moves
\* the request to the expired list.
C22_ExpiresAtDeadline ==
    [][\A c \in Contexts :
         (/\ timer_scans
          /\ link[pending_head].next = c
          /\ link[c].next = pending_head
          /\ is_pending[c]
          /\ request_state[c] = UR_BUSY
          /\ JSub(TimerNow, submission_time[c]) >= albireo_timeout_jiffies)
         => ~is_pending'[c]]_vars

\* C23: the timer delivers ETIMEDOUT only to a submission that was submitted
\* more than the timeout before the handler fired.
C23_OnlyOldSubmissionsTimeOut ==
    [][(timer.pc = "deliver" /\ timer'.pc = "count")
       => submission_time[timer.ctx] < timer.earliest_submission_allowed]_vars

----------------------------------------------------------------------------
(* The driver of the session state machine *)

\* the worker is inside change_dedupe_state
DriverRunning ==
    worker.pc \in {"loop", "close", "create", "rebuild", "get_configuration",
                   "close_unread", "log"}

\* the work items of change_dedupe_state that are queued or running
DriverItems ==
    Cardinality({i \in 1..Len(uds_queue) : uds_queue[i].type = "driver"})
      + (IF DriverRunning THEN 1 ELSE 0)

\* a start, stop, message, suspend or finish call returns in this step
CommandStep == commands' # commands \/ control' # control

\* C24: at most one work item of the driver is queued or running; a command
\* that arrives while changing is true leaves changing true and deduping
\* false and enqueues no work item; and the run that ends the change has
\* reached the target and cleared create_flag.
C24_SingleDriver ==
    /\ [](DriverItems <= 1 /\ (changing => ~deduping))
    /\ [][(changing /\ CommandStep)
          => (changing' /\ ~deduping' /\ DriverItems' = DriverItems)]_vars
    /\ [][(changing /\ ~changing')
          => (index_state' = index_target' /\ ~create_flag')]_vars

\* a stop arrived during the change a start began, and the driver is still
\* in its create call
C24_Witness ==
    /\ changing
    /\ worker.pc = "create"
    /\ control = "stop"
    /\ index_target = IS_CLOSED
    /\ DriverItems = 1

----------------------------------------------------------------------------
(* index-create on an open index *)

\* An open index that is switched offline and online at will, then receives
\* index-create, and after it any further commands.  commands = 1 holds from
\* the index-create until the next command.
NextCreate ==
    \/ /\ commands = 0
       /\ \E name \in {"index-disable", "index-enable"} : message_dedupe_index(name)
       /\ UNCHANGED commands
    \/ /\ commands = 0
       /\ message_dedupe_index("index-create")
       /\ commands' = 1
    \/ /\ commands >= 1
       /\ session_command_counted
       /\ \/ \E create \in BOOLEAN : start_dedupe_index(create)
          \/ stop_dedupe_index
          \/ \E name \in MessageNames : message_dedupe_index(name)
    \/ DriverSteps

SpecCreate == InitOpened /\ [][NextCreate]_vars

\* index-create has been sent to the open index and no command has followed
OnlyCreate == commands = 1

\* C25: index-create sent to an index that is OPENED with no change running
\* makes the driver close the session and create a new index, never rebuild;
\* deduping is false from the return of the message until the driver ends;
\* and when the create succeeds and no other command arrives, the driver ends
\* with index_state OPENED, create_flag and changing false and deduping equal
\* to dedupe_flag.
C25_CreateOnOpenIndex ==
    /\ [](OnlyCreate => IsPrefix(SessionCallNames, <<"close", "create">>))
    /\ [][(commands = 0 /\ OnlyCreate') => (changing' /\ ~deduping')]_vars
    /\ []((OnlyCreate /\ changing) => ~deduping)
    /\ [][(OnlyCreate /\ OnlyCreate' /\ changing /\ ~changing')
          => /\ SessionCallNames = <<"close", "create">>
             /\ (worker.calls[Len(worker.calls)] = <<"create", UDS_SUCCESS>>)
                => /\ index_state' = IS_OPENED
                   /\ ~create_flag'
                   /\ deduping' = dedupe_flag']_vars

\* the driver has closed the session and created the index after an
\* index-create sent while the index was offline
C25_Witness ==
    /\ OnlyCreate
    /\ worker.pc = "loop"
    /\ worker.calls = <<<<"close", UDS_SUCCESS>>, <<"create", UDS_SUCCESS>>>>
    /\ index_state = IS_OPENED
    /\ ~dedupe_flag

----------------------------------------------------------------------------
(* The end of a run of the driver *)

\* C26: every run of change_dedupe_state ends, and the step that ends it
\* leaves index_state equal to index_target, create_flag false and deduping
\* equal to dedupe_flag and index_state = OPENED.
C26_DriverTerminates ==
    /\ changing ~> ~changing
    /\ [][(changing /\ ~changing')
          => /\ index_state' = index_target'
             /\ ~create_flag'
             /\ deduping' = (dedupe_flag' /\ index_state' = IS_OPENED)]_vars

\* a run of the driver has ended with the index open and online
C26_Witness ==
    /\ ~changing
    /\ worker.pc = "idle"
    /\ commands = 1
    /\ control = "start"
    /\ index_state = IS_OPENED
    /\ deduping

----------------------------------------------------------------------------
(* The reporter's work item *)

\* C27: the reporter's work item is never enqueued while it is already on the
\* cpu queue.
C27_WorkItemQueuedOnce ==
    reporter.enqueued <= 1

----------------------------------------------------------------------------
(* The timer across a wrap of jiffies *)

\* The clock itself: jiffies goes up by one and wraps at JiffiesModulus.  A
\* timer that is due runs before the next tick, and the handler's critical
\* section takes less than a tick.  The clock is followed only while a request
\* is outstanding or the timer is armed or running; at other times no step
\* reads it.
jiffies_advances ==
    /\ \/ \E c \in Contexts : awaiting[c]
       \/ pending_timer.armed
       \/ timer.pc # "idle"
    /\ ~(timer.pc = "idle" /\ timer_due /\ pending_lock = "free")
    /\ timer.pc # "scan"
    /\ jiffies' = JAdd(jiffies, 1)
    /\ UNCHANGED <<ctx_vars, link, index_vars, reporter, dedupeContextBusy,
                   statistics,
                   pending_timer, thread_vars, engine, awaiting, callbacks,
                   rs_edge, submissions, commands>>

\* One request is submitted on an open index; the clock starts at any value
\* of the counter and wraps.
NextWrap ==
    \/ \E c \in Submitters, in \in {CHOOSE in \in RequestInputs : in.op = "UDS_QUERY"} :
          submissions < MaxSystemSubmissions /\ enqueue_index_operation(c, in)
    \/ \E c \in Submitters : enqueue_locked(c)
    \/ \E c \in Submitters : enqueue_counted(c)
    \/ \E c \in Submitters : start_index_operation(c)
    \/ \E r \in {UDS_SUCCESS, UDS_ERROR} : start_chunk_returns(r)
    \/ \E t \in Finishers : finish_remove_pending(t)
    \/ \E t \in Finishers : finish_deliver(t)
    \/ \E t \in Finishers : finish_counted(t)
    \/ \E c \in Submitters :
         engine_completes(c, [status |-> UDS_SUCCESS, found |-> FALSE,
                              oldMetadata |-> ZeroMetadata])
    \/ TimerSteps
    \/ jiffies_advances

SpecWrap ==
    /\ \E now \in 0..(JiffiesModulus - 1) : InitOpenedAt(now)
    /\ [][NextWrap]_vars

\* C28: the handler expires the entry at the head of the pending list exactly
\* when the ticks elapsed since its submission, taken modulo 2^JiffiesBits,
\* exceed the timeout; and whenever the timer is armed, its deadline is at or
\* after both submission_time + timeout and jiffies + minimum interval in the
\* wrap-aware order.
C28_WrapAwareExpiry ==
    /\ [][\A c \in Contexts :
            (/\ timer_scans
             /\ link[pending_head].next = c
             /\ is_pending[c])
            => (~is_pending'[c]
                <=> JSub(TimerNow, submission_time[c]) > albireo_timeout_jiffies)]_vars
    /\ [][\A c \in Contexts :
            (/\ ~started_timer
             /\ started_timer'
             /\ link'[pending_head].next = c)
            => /\ time_after_eq(pending_timer'.expires,
                                JAdd(submission_time[c], albireo_timeout_jiffies))
               /\ time_after_eq(pending_timer'.expires,
                                JAdd(jiffies, min_albireo_timer_jiffies))]_vars

----------------------------------------------------------------------------
(* The session state at rest *)

\* C29: whenever the state lock is free and changing is false, index_state
\* equals index_target, is not CHANGING, and create_flag is false; and
\* index_state is CHANGING only while changing is true.
C29_RestState ==
    /\ (state_lock = "free" /\ ~changing)
       => /\ index_state = index_target
          /\ index_state # IS_CHANGING
          /\ ~create_flag
    /\ (index_state = IS_CHANGING) => changing

\* the driver has ended after an open that failed and forced the target to
\* CLOSED
C29_Witness ==
    /\ state_lock = "free"
    /\ ~changing
    /\ commands = 1
    /\ control = "start"
    /\ error_flag
    /\ index_state = IS_CLOSED

----------------------------------------------------------------------------
(* The session handle of a request *)

\* C30: a request the worker hands to udsStartChunkOperation carries the
\* handle of the session that is open at that moment.
C30_RequestCarriesOpenSession ==
    (worker.pc = "start_chunk")
    => /\ engine.session # 0
       /\ uds_request[worker.ctx].session = engine.session

----------------------------------------------------------------------------
(* get_index_statistics *)

\* what a step of get_index_statistics leaves alone
statistics_frame ==
    UNCHANGED <<ctx_vars, link, index_vars, reporter, dedupeContextBusy, jiffies,
                pending_timer, thread_vars, engine, awaiting, callbacks, rs_edge,
                submissions, commands>>

\* lines 799-802: index_state and maximum are read under the state_lock
get_index_statistics ==
    /\ statistics.pc \in {"idle", "done"}
    /\ state_lock = "free"
    /\ statistics' = [IdleStatistics EXCEPT !.pc = "unlocked",
                                            !.index_state = index_state,
                                            !.maxDedupeQueries = maximum]
    /\ statistics_frame

\* lines 803-804: active is read with the lock released; the engine is asked
\* only if the index was open
statistics_reads_active ==
    /\ statistics.pc = "unlocked"
    /\ statistics' = [statistics EXCEPT
                        !.currDedupeQueries = ToUnsigned(active),
                        !.pc = IF statistics.index_state = IS_OPENED
                               THEN "index_stats" ELSE "done"]
    /\ statistics_frame

\* lines 806-813: udsGetIndexStats(index->index_session, ...) is called and
\* returns
statistics_index_stats ==
    /\ statistics.pc = "index_stats"
    /\ statistics' = [statistics EXCEPT !.session = index_session,
                                        !.pc = "session_stats"]
    /\ statistics_frame

\* lines 815-827: udsGetIndexSessionStats(index->index_session, ...) is called
\* and returns
statistics_session_stats ==
    /\ statistics.pc = "session_stats"
    /\ statistics' = [statistics EXCEPT !.session = index_session, !.pc = "done"]
    /\ statistics_frame

\* the steps of a thread that reads the statistics
StatisticsSteps ==
    \/ get_index_statistics
    \/ statistics_reads_active
    \/ statistics_index_stats
    \/ statistics_session_stats

\* The session state machine with a thread that reads the statistics.
NextStatistics ==
    \/ session_command_counted /\ \E create \in BOOLEAN : start_dedupe_index(create)
    \/ session_command_counted /\ stop_dedupe_index
    \/ session_command_counted /\ \E name \in MessageNames : message_dedupe_index(name)
    \/ DriverSteps
    \/ StatisticsSteps

SpecStatistics == Init /\ [][NextStatistics]_vars

\* get_index_statistics is about to call the engine, or is between its calls
InStatisticsCalls == statistics.pc \in {"index_stats", "session_stats"}

\* C31: while get_index_statistics, having found the index OPENED, makes its
\* calls to the engine, the driver has not begun to close the session:
\* index_state is still OPENED and the engine's session is the one in
\* index_session.
C31_StatisticsOnOpenSession ==
    InStatisticsCalls
    => /\ index_state = IS_OPENED
       /\ engine.session # 0
       /\ engine.session = index_session

----------------------------------------------------------------------------
(* The counters active and maximum *)

\* The request lifecycle on an open index, with a thread that reads the
\* statistics.
NextActive ==
    \/ \E c \in Submitters, in \in {CHOOSE in \in RequestInputs : in.op = "UDS_QUERY"} :
          enqueue_index_operation(c, in)
    \/ \E c \in Submitters : enqueue_locked(c)
    \/ \E c \in Submitters : enqueue_counted(c)
    \/ \E c \in Submitters : start_index_operation(c)
    \/ \E r \in {UDS_SUCCESS, UDS_ERROR} : start_chunk_returns(r)
    \/ \E t \in Finishers : finish_remove_pending(t)
    \/ \E t \in Finishers : finish_deliver(t)
    \/ \E t \in Finishers : finish_counted(t)
    \/ \E c \in Submitters :
         engine_completes(c, [status |-> UDS_SUCCESS, found |-> FALSE,
                              oldMetadata |-> ZeroMetadata])
    \/ StatisticsSteps

SpecActive == InitOpened /\ [][NextActive]_vars

\* get_index_statistics has filled currDedupeQueries and maxDedupeQueries
StatisticsTaken == statistics.pc \in {"index_stats", "session_stats", "done"}

\* C33: active is never negative and never above maximum, and the statistics
\* never show more current queries than the maximum.
C33_ActiveWithinMaximum ==
    /\ active >= 0
    /\ active <= maximum
    /\ StatisticsTaken
       => (statistics.currDedupeQueries <= statistics.maxDedupeQueries)

----------------------------------------------------------------------------
(* free_dedupe_index and the pending timer *)

\* lines 466-468: the kernel runs the handler of the timer that is due; the
\* handler has not taken the pending_lock yet.  timer_fires is this step and
\* the next one taken together.
timer_handler_runs ==
    /\ timer.pc = "idle"
    /\ timer_due
    /\ pending_timer' = [pending_timer EXCEPT !.armed = FALSE]
    /\ link' = INIT_LIST_HEAD(link, expiredHead)
    /\ timer' = [pc |-> "lock", ctx |-> "none",
                 earliest_submission_allowed |-> JSub(jiffies, albireo_timeout_jiffies)]
    /\ UNCHANGED <<ctx_vars, index_vars, reporter, dedupeContextBusy, jiffies,
                   statistics, dp, worker, finisher, control, suspender, engine,
                   awaiting, callbacks, rs_edge, submissions, commands>>

\* lines 469-470: the handler takes the pending_lock
timer_handler_locks ==
    /\ timer.pc = "lock"
    /\ pending_lock = "free"
    /\ pending_lock' = "timer"
    /\ started_timer' = FALSE
    /\ timer' = [timer EXCEPT !.pc = "scan"]
    /\ UNCHANGED <<ctx_vars, link, active, maximum, index_state, index_target,
                   changing, create_flag, dedupe_flag, deduping, error_flag,
                   index_session, uds_queue, state_lock, reporter,
                   dedupeContextBusy, jiffies, statistics, pending_timer, dp,
                   worker, finisher, control, suspender, engine, awaiting,
                   callbacks, rs_edge, submissions, commands>>

\* the steps of the pending timer's handler, the taking of the lock apart
TimerHandlerSteps ==
    \/ timer_handler_runs
    \/ timer_handler_locks
    \/ timer_scans
    \/ timer_expires
    \/ timer_delivers
    \/ timer_counted

\* where the caller of free_dedupe_index is
FreePositions ==
    {"stop_reporter", "del_timer_sync", "free_locked", "free_unlocked",
     "free_returned"}

\* what a step of free_dedupe_index leaves alone
free_frame ==
    UNCHANGED <<ctx_vars, link, active, maximum, index_state, index_target,
                changing, create_flag, dedupe_flag, deduping, error_flag,
                index_session, started_timer, uds_queue, state_lock, reporter,
                dedupeContextBusy, jiffies, statistics, dp, worker, finisher,
                timer, suspender, engine, awaiting, callbacks, rs_edge,
                submissions, commands>>

\* lines 771-777: free_work_queue; stop_periodic_event_reporter comes next
free_dedupe_index ==
    /\ control \notin FreePositions
    /\ uds_queue = <<>>
    /\ worker.pc = "idle"
    /\ control' = "stop_reporter"
    /\ UNCHANGED <<pending_lock, pending_timer>>
    /\ free_frame

\* lines 779-780: with the reporter flushed, the pending_lock is taken and
\* started_timer tested
free_locks_pending ==
    /\ control = "stop_reporter"
    /\ reporter.flushed
    /\ pending_lock = "free"
    /\ pending_lock' = "control"
    /\ control' = IF started_timer THEN "del_timer_sync" ELSE "free_locked"
    /\ UNCHANGED pending_timer
    /\ free_frame

\* line 781: del_timer_sync deactivates the timer and returns once no handler
\* of it is running
free_del_timer_sync ==
    /\ control = "del_timer_sync"
    /\ timer.pc = "idle"
    /\ pending_timer' = [pending_timer EXCEPT !.armed = FALSE]
    /\ control' = "free_locked"
    /\ UNCHANGED pending_lock
    /\ free_frame

\* line 783: spin_unlock_bh(&index->pending_lock)
free_unlocks_pending ==
    /\ control = "free_locked"
    /\ pending_lock' = "free"
    /\ control' = "free_unlocked"
    /\ UNCHANGED pending_timer
    /\ free_frame

\* line 784: kobject_put; free_dedupe_index returns
free_returns ==
    /\ control = "free_unlocked"
    /\ control' = "free_returned"
    /\ UNCHANGED <<pending_lock, pending_timer>>
    /\ free_frame

\* the steps of the caller of free_dedupe_index
FreeSteps ==
    \/ free_dedupe_index
    \/ control = "stop_reporter" /\ stop_periodic_event_reporter
    \/ free_locks_pending
    \/ free_del_timer_sync
    \/ free_unlocks_pending
    \/ free_returns

\* the device is torn down only when every request has had its callback and
\* the engine holds none
NothingOutstanding ==
    /\ \A c \in Contexts : ~awaiting[c] /\ dp[c] = "idle"
    /\ \A t \in Finishers : finisher[t].pc = "idle"
    /\ engine.requests = {}

\* The request lifecycle of one request, the timer's handler, the reporter's
\* work item and the teardown by free_dedupe_index.
NextTeardown ==
    \/ /\ control \notin FreePositions
       /\ submissions < MaxSystemSubmissions
       /\ \E c \in Submitters, in \in {CHOOSE in \in RequestInputs : in.op = "UDS_QUERY"} :
             enqueue_index_operation(c, in)
    \/ \E c \in Submitters : enqueue_locked(c)
    \/ \E c \in Submitters : enqueue_counted(c)
    \/ \E c \in Submitters : start_index_operation(c)
    \/ \E r \in {UDS_SUCCESS, UDS_ERROR} : start_chunk_returns(r)
    \/ \E t \in Finishers : finish_remove_pending(t)
    \/ \E t \in Finishers : finish_deliver(t)
    \/ \E t \in Finishers : finish_counted(t)
    \/ \E c \in Submitters :
         engine_completes(c, [status |-> UDS_SUCCESS, found |-> FALSE,
                              oldMetadata |-> ZeroMetadata])
    \/ TimerHandlerSteps
    \/ tick
    \/ report_events_work
    \/ report_events_reads
    \/ report_events_logs
    \/ (control \in FreePositions \/ NothingOutstanding) /\ FreeSteps

\* the teardown with every thread that is inside a function scheduled
FairSpecTeardown ==
    /\ InitOpened
    /\ [][NextTeardown]_vars
    /\ WF_vars(FreeSteps)
    /\ WF_vars(TimerHandlerSteps)
    /\ WF_vars(report_events_reads)
    /\ WF_vars(report_events_logs)

\* free_dedupe_index has been called and has not returned
Freeing == control \in FreePositions \ {"free_returned"}

FreeReturned == control = "free_returned"

\* C32: every call of free_dedupe_index returns; and once it has returned,
\* the timer is not armed, its handler is not running, and the reporter's
\* work item is not enqueued again.
C32_FreeTerminates ==
    /\ Freeing ~> FreeReturned
    /\ [](FreeReturned => (timer.pc = "idle" /\ ~pending_timer.armed))
    /\ [][FreeReturned => (reporter.enqueued' <= reporter.enqueued)]_vars
====
